---- MODULE Spec2Model ----
(***************************************************************************)
(* State-machine model of the particle simulation in src/js/main.js:       *)
(* the formation build (generateParticlesFromSVG / recreateParticles), the *)
(* loading sequencer, the per-frame step (animate / updatePhysics) and the *)
(* UI events that feed them.                                               *)
(*                                                                         *)
(* Conventions.                                                            *)
(*  - World lengths, velocities, sizes and brightness are fixed-point      *)
(*    integers in units of 1/FP.  A vec3 is a tuple <<x, y, z>>.           *)
(*  - A per-particle Float32Array is a sequence with one entry per         *)
(*    particle (a vec3 for the 3-component arrays); particle i of the code *)
(*    is entry i+1.                                                        *)
(*  - Time is in integer milliseconds since the page's time origin;        *)
(*    Date.now() and performance.now() read the same clock "now" (they     *)
(*    differ by a constant offset that cancels in every use).              *)
(*  - Math.random() is a nondeterministic choice from a small set.         *)
(***************************************************************************)
EXTENDS Integers, Sequences, FiniteSets, TLC

VARIABLES
    CONFIG,                 \* the CONFIG object (main.js:65-116)
    positions,              \* == geometry.attributes.position.array
    originalPositions,      \* targetPosition
    baseOriginalPositions,  \* basePosition
    startPositions,
    scrollDirections,
    velocities,
    colors,
    sizes,
    baseSizes,
    glows,
    explosionGlowEndTimes,
    explosionReturnTimes,
    totalParticleCount,
    baseIndex,              \* history: baseIndex of the build the arrays come from
    isInitialized,
    geometry,               \* FALSE: null, TRUE: a BufferGeometry over the arrays
    svgLoad,                \* "pending" | "loaded" | "failed" (loadSVG)
    initState,              \* init IIFE: "running" | "done" | "failed"
    tasks,                  \* generateParticlesFromSVG calls awaiting their sampling
    committedLatest,        \* the current arrays come from the call started last
    particleCountTimeout,   \* debounce timer: its deadline, or None
    outsideParticleCountTimeout,
    scrollY,                \* window.scrollY as a fraction of maxScroll, in 1/FP
    scrollProgress,
    previousScrollProgress,
    scrollTimeout,          \* scroll rAF pending
    now,                    \* the clock
    inputs,                 \* user inputs so far
    lastFrameTime,
    maxFPS,
    rafAnimate,             \* requestAnimationFrame(animate) pending
    currentTime,            \* animate's currentTime at its latest call
    lastProcessedTime,      \* history: the time of the latest processed frame
    waveCreatedAt,          \* history: the time of the latest wave creation
    wasWaveActive,
    pointer,                \* the pointer and what the pointer handlers keep of it
    localStorage,           \* the item 'particleConfig': its JSON text, or NoItem
    calc                    \* a function under evaluation: its inputs and result

arrays == <<positions, originalPositions, baseOriginalPositions, startPositions,
            scrollDirections, velocities, colors, sizes, baseSizes, glows,
            explosionGlowEndTimes, explosionReturnTimes, totalParticleCount, baseIndex>>
build  == <<svgLoad, initState, tasks, committedLatest,
            particleCountTimeout, outsideParticleCountTimeout>>
scroll == <<scrollY, scrollProgress, previousScrollProgress, scrollTimeout>>
frame  == <<lastFrameTime, maxFPS, rafAnimate, currentTime, lastProcessedTime,
            waveCreatedAt, wasWaveActive, pointer>>
vars   == <<CONFIG, arrays, isInitialized, geometry, build, scroll, now, inputs, frame,
            localStorage, calc>>

----------------------------------------------------------------------------
(* Bounds of the model *)

MaxTicks == 4
MaxInputs == 2
MaxLateTicks == 1
MaxParticleCount == 2
MaxOutsideCount == 2
MaxExplosions == 2
MaxTasks == 2
MaxFPSSetting == 2
MaxSpringSteps == 150
MaxWaveTicks == 6
MaxWaveFrames == 250
(* the default particleCount and outsideParticleCount, scaled to the model *)
DefaultParticleCount == 1
DefaultOutsideCount == 2

(* Fixed point and clock granularity *)
FP == 100 * 100
TickMs == 4 * 100
(* 2^24: above it a Float32 no longer holds every integer *)
F32Exact == 4096 * 4096
(* a clock value reached after the page has been open for some hours, chosen
   so that LateNow + explosionReturnDelay = 2^24 + 1 *)
LateNow == F32Exact + 1 - 1200

----------------------------------------------------------------------------
(* Arithmetic helpers *)

Abs(x) == IF x < 0 THEN -x ELSE x
Min(a, b) == IF a < b THEN a ELSE b
Max(a, b) == IF a > b THEN a ELSE b
Sign(x) == IF x < 0 THEN -1 ELSE 1

(* |a| * n / d rounded toward zero, split so that a large |a| does not
   overflow the checker's integers *)
MulDiv(a, n, d) == (a \div d) * n + ((a % d) * n) \div d
(* a * (n / d) for a rational coefficient n / d >= 0 *)
Scale(a, n, d) == Sign(a) * MulDiv(Abs(a), n, d)
(* a * b for fixed-point a, b *)
Mul(a, b) == Sign(b) * Scale(a, Abs(b), FP)

Zero3 == <<0, 0, 0>>
VAdd(a, b) == <<a[1] + b[1], a[2] + b[2], a[3] + b[3]>>
VSub(a, b) == <<a[1] - b[1], a[2] - b[2], a[3] - b[3]>>
VMul(a, k) == <<Mul(a[1], k), Mul(a[2], k), Mul(a[3], k)>>
VScale(a, n, d) == <<Scale(a[1], n, d), Scale(a[2], n, d), Scale(a[3], n, d)>>
(* k * a for a fixed-point k that may be large *)
VTimes(k, a) == <<Mul(k, a[1]), Mul(k, a[2]), Mul(k, a[3])>>

(* v.lengthSq() < t*t, evaluated without overflowing on a large |v| *)
LengthSqBelow(v, t) ==
    /\ Abs(v[1]) < t /\ Abs(v[2]) < t /\ Abs(v[3]) < t
    /\ v[1] * v[1] + v[2] * v[2] + v[3] * v[3] < t * t

(* The value a Float32Array element holds after x is stored in it, for an
   integer 0 <= x < 2^26: exact below 2^24, then rounded to the nearest
   multiple of 2 (of 4), ties to the even mantissa. *)
RoundToMultiple(x, m) ==
    LET lo == (x \div m) * m
        r  == x - lo
    IN  IF 2 * r < m THEN lo
        ELSE IF 2 * r > m THEN lo + m
        ELSE IF (lo \div m) % 2 = 0 THEN lo ELSE lo + m

ToFloat32(x) ==
    IF x < F32Exact THEN x
    ELSE IF x < 2 * F32Exact THEN RoundToMultiple(x, 2)
    ELSE RoundToMultiple(x, 4)

(* new Float32Array(n) and new Float32Array(3 * n) *)
ZeroArray(n) == [i \in 1..n |-> 0]
ZeroArray3(n) == [i \in 1..n |-> Zero3]

(* typed.subarray(0, n) / typed.slice(0, n), n already clamped by the caller *)
Prefix(s, n) == SubSeq(s, 1, n)
(* dst.set(src, 0) *)
SetPrefix(dst, src) == [i \in 1..Len(dst) |-> IF i <= Len(src) THEN src[i] ELSE dst[i]]

----------------------------------------------------------------------------
(* Program constants *)

ExplosionReturnDelay == 1200
ExplosionGlowDuration == 500
CameraZ == 12
FixedMaxDistance == 70
CandidateFactor == 5

(* CONFIG values, fixed point *)
TimeScale == (9 * FP) \div 10                \* timeScale: 0.90
SpringConstant == (35 * FP) \div 100         \* springConstant: 0.35
Damping == (9 * FP) \div 10                  \* damping: 0.90
DtNominal == (16 * FP) \div 1000             \* 0.016
RestThreshold == FP \div 1000                \* threshold = 0.001
PointSize == 4 * FP                          \* pointSize: 4
GlowBrightness == (19 * FP) \div 100         \* glowBrightness: 0.19
DepthDarkeningStrength == (185 * FP) \div 100
ScrollSpreadForce == 75                      \* scrollSpreadForce: 75
ExplosionImpulse == FP                       \* explosionForce * 0.1 = 1.0
ExplosionSpeed == (2 * FP) \div 10           \* explosionSpeed: 0.20
ExplosionGlowIntensity == (8 * FP) \div 10   \* explosionGlowIntensity: 0.8
MaxBrightness == FP                          \* maxBrightness: 1.0
VelocityGlowMultiplier == FP \div 10         \* velocityGlowMultiplier: 0.10
ForceStrength == 100 * FP                    \* forceStrength: 100.0
InteractionRadius == 5 * FP                  \* interactionRadius: 5.0
TangentialForceRatio == (4 * FP) \div 10     \* tangentialForceRatio: 0.4
ZAxisStrength == (6 * FP) \div 10            \* zAxisStrength: 0.6
DebounceMs == 3 * 100                        \* setTimeout(..., 300)
NoTime == 0 - 1                              \* null, for a time or a timer
NoItem == <<>>                               \* localStorage.getItem(...) === null
NoCalc == <<>>                               \* nothing under evaluation
AutonomousMotionStrength == (4 * FP) \div 100 \* autonomousMotionStrength: 0.04
WaveInterval == 2 * TickMs                   \* waveInterval: 8000, scaled
WaveSpeed == 6 * FP                          \* waveSpeed: 6.0
WaveWidth == (16 * FP) \div 10               \* waveWidth: 1.6
WaveForce == FP \div 1000                    \* waveForce: 0.001
WaveGlowIntensity == (75 * FP) \div 100      \* waveGlowIntensity: 0.75
WaveForceFalloff == FP \div 2                \* waveForceFalloff: 0.5
(* camera.right - camera.left and camera.top - camera.bottom: viewSize * aspect
   and viewSize, for a square window *)
ViewportWidth == 20 * FP
ViewportHeight == 20 * FP

(* values the sliders and the stored settings can take in the model *)
ParticleCounts == 1..MaxParticleCount
OutsideCounts == 0..MaxOutsideCount
LoadDurations == {TickMs, 2 * TickMs}
DefaultLoadDuration == 2 * TickMs              \* loadAnimationDuration: 4000, scaled
(* loadAnimationEasingCurve: { p1x: 0.42, p1y: 0, p2x: 0.58, p2y: 1 } *)
DefaultEasingCurve ==
    [p1x |-> (42 * FP) \div 100, p1y |-> 0, p2x |-> (58 * FP) \div 100, p2y |-> FP]

(* candidates per sampling batch: the batchSize argument (500 in the code),
   scaled with the particle counts of the model *)
BatchSize == 5

----------------------------------------------------------------------------
(* The formation geometry and its samplers.  The silhouette is a rectangle
   centred on the origin of the plane z = 0; one draw "r" of the random
   number generator fixes every random value of one build. *)

Runs == {1, 2}
MeshHalfWidth == 5 * FP
MeshHalfHeight == 2 * FP
MaxDimension == 2 * MeshHalfWidth         \* largest side of the bounding box

isPointInsideMesh(p) ==
    Abs(p[1]) <= MeshHalfWidth /\ Abs(p[2]) <= MeshHalfHeight /\ p[3] = 0

(* the i-th surface point of draw r (i from 0) *)
SurfacePoint(r, i) == <<(IF r = 1 THEN 1 ELSE -1) * (i + 1) * FP, 0, 0>>
getShapeVolumePoints(count, r) == [i \in 1..count |-> SurfacePoint(r, i - 1)]

(* the k-th viewport candidate of draw r (k from 0): draw 1 falls outside
   the silhouette every time, draw 2 inside it on every even k *)
Candidate(r, k) ==
    IF r = 1 THEN <<MeshHalfWidth + (k + 1) * FP, 0, 0>>
    ELSE IF k % 2 = 0 THEN <<0, 0, 0>>
    ELSE <<-(MeshHalfWidth + (k + 1) * FP), 0, 0>>

(* random unit direction, start direction and start distance of draw r *)
RandomDirection(r) == IF r = 1 THEN <<FP, 0, 0>> ELSE <<0, 0, 0 - FP>>
StartDirection(r) == IF r = 1 THEN <<0, 0, -FP>> ELSE <<0, FP, 0>>
StartDistance(r) == MaxDimension * (IF r = 1 THEN 5 ELSE 7)
RandomSize(r) == IF r = 1 THEN PointSize ELSE PointSize \div 2
InvisibleDraws(pct) ==
    IF pct <= 0 THEN {FALSE} ELSE IF pct >= 100 THEN {TRUE} ELSE {TRUE, FALSE}

White == <<FP, FP, FP>>

RECURSIVE SumVec(_, _)
SumVec(s, n) == IF n = 0 THEN Zero3 ELSE VAdd(SumVec(s, n - 1), s[n])
(* cloudCenter: the mean of the created base positions *)
CloudCenter(base) ==
    IF Len(base) = 0 THEN Zero3 ELSE VScale(SumVec(base, Len(base)), 1, Len(base))

(* generateParticlesFromSVG up to its call of generateOutsidePointsAsync:
   the temporary arrays of the in-formation particles *)
TempArrays(count, r) ==
    LET pts    == getShapeVolumePoints(count, r)
        center == CloudCenter(pts)
        start  == VAdd(center, VScale(StartDirection(r), StartDistance(r), FP))
    IN  [ positions             |-> [i \in 1..count |-> start],
          originalPositions     |-> pts,
          baseOriginalPositions |-> pts,
          startPositions        |-> [i \in 1..count |-> start],
          scrollDirections      |-> [i \in 1..count |-> RandomDirection(r)],
          velocities            |-> ZeroArray3(count),
          colors                |-> [i \in 1..count |-> White],
          sizes                 |-> [i \in 1..count |-> RandomSize(r)],
          baseSizes             |-> [i \in 1..count |-> RandomSize(r)] ]

(* generateOutsidePointsAsync.processBatch: the candidates from..to-1 that
   are not inside the mesh, in order *)
BatchOutsidePoints(r, from, to) ==
    SelectSeq([j \in 1..(to - from) |-> Candidate(r, from + j - 1)],
              LAMBDA pt : ~isPointInsideMesh(pt))

(* the density filter at the end of generateOutsidePointsAsync; acc holds
   the selected indices (from 0) and the points pushed so far *)
Pick(acc, pts, i) ==
    [sel |-> acc.sel \cup {i}, out |-> Append(acc.out, pts[i + 1])]

RECURSIVE EveryFifth(_, _, _, _)
EveryFifth(pts, target, i, acc) ==
    IF i >= Len(pts) \/ Len(acc.out) >= target THEN acc
    ELSE EveryFifth(pts, target, i + 5, Pick(acc, pts, i))

RECURSIVE Stepped(_, _, _, _, _)
Stepped(pts, target, step, index, acc) ==
    IF ~(Len(acc.out) < target /\ index < Len(pts)) THEN acc
    ELSE Stepped(pts, target, step, index + step,
                 IF index \in acc.sel THEN acc ELSE Pick(acc, pts, index))

RECURSIVE Linear(_, _, _, _)
Linear(pts, target, i, acc) ==
    IF ~(i < Len(pts) /\ Len(acc.out) < target) THEN acc
    ELSE Linear(pts, target, i + 1,
                IF i \in acc.sel THEN acc ELSE Pick(acc, pts, i))

FilterOutsidePoints(pts, target) ==
    LET a1 == EveryFifth(pts, target, 0, [sel |-> {}, out |-> <<>>])
        a2 == IF Len(a1.out) < target /\ Len(pts) > 0
              THEN LET step == Max(1, Len(pts) \div (target - Len(a1.out)))
                       s    == Stepped(pts, target, step, 0, a1)
                   IN  IF Len(s.out) < target THEN Linear(pts, target, 0, s) ELSE s
              ELSE a1
    IN  a2.out

----------------------------------------------------------------------------
(* The particle store as one value *)

Store == [ positions |-> positions, originalPositions |-> originalPositions,
           baseOriginalPositions |-> baseOriginalPositions,
           startPositions |-> startPositions, scrollDirections |-> scrollDirections,
           velocities |-> velocities, colors |-> colors, sizes |-> sizes,
           baseSizes |-> baseSizes, glows |-> glows,
           explosionGlowEndTimes |-> explosionGlowEndTimes,
           explosionReturnTimes |-> explosionReturnTimes,
           totalParticleCount |-> totalParticleCount, baseIndex |-> baseIndex ]

SetStore(st) ==
    /\ positions' = st.positions
    /\ originalPositions' = st.originalPositions
    /\ baseOriginalPositions' = st.baseOriginalPositions
    /\ startPositions' = st.startPositions
    /\ scrollDirections' = st.scrollDirections
    /\ velocities' = st.velocities
    /\ colors' = st.colors
    /\ sizes' = st.sizes
    /\ baseSizes' = st.baseSizes
    /\ glows' = st.glows
    /\ explosionGlowEndTimes' = st.explosionGlowEndTimes
    /\ explosionReturnTimes' = st.explosionReturnTimes
    /\ totalParticleCount' = st.totalParticleCount
    /\ baseIndex' = st.baseIndex

(* a merged array: the in-formation prefix copied from the temporary array,
   the outside entries from baseIndex = particleCount on, zero elsewhere *)
Merged(total, prefix, count, outside, zero) ==
    [i \in 1..total |->
        IF i > count THEN outside[i - count]
        ELSE IF i <= Len(prefix) THEN prefix[i] ELSE zero]

(* generateParticlesFromSVG after its await: merge and swap.  count is
   CONFIG.particleCount as read at that moment. *)
CommitArrays(st, temp, filtered, count, r, inv) ==
    LET n     == Len(filtered)
        total == count + n
        copy  == Min(count, Len(temp.positions))
        ostart == [j \in 1..n |->
                     VAdd(filtered[j], VScale(StartDirection(r), StartDistance(r), FP))]
        osize == [j \in 1..n |-> IF inv THEN 0 ELSE RandomSize(r)]
    IN  [ positions |-> Merged(total, Prefix(temp.positions, copy), count, ostart, Zero3),
          originalPositions |->
              Merged(total, Prefix(temp.originalPositions, copy), count, filtered, Zero3),
          baseOriginalPositions |->
              Merged(total, Prefix(temp.baseOriginalPositions, copy), count, filtered, Zero3),
          startPositions |->
              Merged(total, Prefix(temp.startPositions, copy), count, ostart, Zero3),
          scrollDirections |->
              Merged(total, Prefix(temp.scrollDirections, copy), count,
                     [j \in 1..n |-> RandomDirection(r)], Zero3),
          velocities |-> ZeroArray3(total),
          colors |-> Merged(total, Prefix(temp.colors, copy), count,
                            [j \in 1..n |-> White], Zero3),
          sizes |-> Merged(total, Prefix(temp.sizes, copy), count, osize, 0),
          baseSizes |-> Merged(total, Prefix(temp.baseSizes, copy), count, osize, 0),
          glows |-> st.glows,
          explosionGlowEndTimes |-> ZeroArray(total),
          explosionReturnTimes |-> ZeroArray(total),
          totalParticleCount |-> total,
          baseIndex |-> count ]

(* "if (glows.length !== totalParticleCount) glows = new Float32Array(...)" *)
ResizeGlows(st) ==
    IF Len(st.glows) # st.totalParticleCount
    THEN [st EXCEPT !.glows = ZeroArray(st.totalParticleCount)]
    ELSE st

(* recreateParticles: the slices saved before the rebuild ... *)
SavedArrays(st, count) ==
    [ originalPositions |-> Prefix(st.originalPositions, Min(count, Len(st.originalPositions))),
      baseOriginalPositions |->
          Prefix(st.baseOriginalPositions, Min(count, Len(st.baseOriginalPositions))),
      scrollDirections |-> Prefix(st.scrollDirections, Min(count, Len(st.scrollDirections))),
      velocities |-> Prefix(st.velocities, Min(count, Len(st.velocities))),
      colors |-> Prefix(st.colors, Min(count, Len(st.colors))),
      sizes |-> Prefix(st.sizes, Min(count, Len(st.sizes))),
      baseSizes |-> Prefix(st.baseSizes, Min(count, Len(st.baseSizes))) ]

(* ... and their restoration after it *)
RestoreArrays(st, old, count) ==
    LET n == Min(count, Min(Len(old.originalPositions), Len(st.originalPositions)))
        Put(dst, src) == SetPrefix(dst, Prefix(src, Min(n, Len(src))))
    IN  [st EXCEPT
          !.originalPositions = Put(@, old.originalPositions),
          !.baseOriginalPositions = Put(@, old.baseOriginalPositions),
          !.scrollDirections = Put(@, old.scrollDirections),
          !.velocities = Put(@, old.velocities),
          !.colors = Put(@, old.colors),
          !.sizes = Put(@, old.sizes),
          !.baseSizes = Put(@, old.baseSizes)]

(* updateOriginalPositionsFromScroll *)
ScrollApplied(st, initialized, progress) ==
    IF ~initialized \/ Len(st.baseOriginalPositions) = 0 THEN st
    ELSE LET actual == Min(st.totalParticleCount, Len(st.baseOriginalPositions))
             spread == progress * ScrollSpreadForce
         IN  [st EXCEPT !.originalPositions =
                [i \in 1..Len(@) |->
                    IF i <= actual
                    THEN VAdd(st.baseOriginalPositions[i],
                              VMul(st.scrollDirections[i], spread))
                    ELSE @[i]]]

----------------------------------------------------------------------------
(* The frame step: updatePhysics *)

Clamp01(x) == Max(0, Min(FP, x))

(* a faulty variant: t is not clamped *)
bezierEasingUnclamped(t, c) ==
    LET omt  == FP - t
        omt2 == Mul(omt, omt)
        t2   == Mul(t, t)
        t3   == Mul(t2, t)
    IN  3 * Mul(Mul(omt2, t), c.p1y) + 3 * Mul(Mul(omt, t2), c.p2y) + t3

(* bezierEasing(t, p1x, p1y, p2x, p2y): the Y coordinate of the cubic *)
bezierEasing(t0, c) ==
    LET t    == Clamp01(t0)
        omt  == FP - t
        omt2 == Mul(omt, omt)
        t2   == Mul(t, t)
        t3   == Mul(t2, t)
    IN  3 * Mul(Mul(omt2, t), c.p1y) + 3 * Mul(Mul(omt, t2), c.p2y) + t3

(* curvePresets *)
curvePresets ==
    [ linear    |-> [p1x |-> FP \div 4, p1y |-> FP \div 4,
                     p2x |-> (3 * FP) \div 4, p2y |-> (3 * FP) \div 4],
      easeIn    |-> [p1x |-> (42 * FP) \div 100, p1y |-> 0, p2x |-> FP, p2y |-> FP],
      easeOut   |-> [p1x |-> 0, p1y |-> 0, p2x |-> (58 * FP) \div 100, p2y |-> FP],
      easeInOut |-> [p1x |-> (42 * FP) \div 100, p1y |-> 0,
                     p2x |-> (58 * FP) \div 100, p2y |-> FP] ]
Presets == {curvePresets[n] : n \in DOMAIN curvePresets}

(* CSS cubic-bezier(p1x, p1y, p2x, p2y): one coordinate of the curve point
   at parameter s, the parameter whose point has the x-coordinate x (found
   by bisection, x(s) being monotone for p1x, p2x in [0,1]), and the y of
   that point *)
BezierCoord(s, a, b) ==
    LET oms == FP - s
    IN  3 * Mul(Mul(Mul(oms, oms), s), a) + 3 * Mul(Mul(oms, Mul(s, s)), b)
        + Mul(Mul(s, s), s)
RECURSIVE SolveX(_, _, _, _)
SolveX(x, c, lo, hi) ==
    IF hi - lo <= 1 THEN lo
    ELSE LET mid == (lo + hi) \div 2
         IN  IF BezierCoord(mid, c.p1x, c.p2x) <= x
             THEN SolveX(x, c, mid, hi) ELSE SolveX(x, c, lo, mid)
CssCubicBezier(x, c) ==
    IF x <= 0 THEN 0 ELSE IF x >= FP THEN FP
    ELSE BezierCoord(SolveX(x, c, 0, FP), c.p1y, c.p2y)

(* progress = Math.min(1, elapsed / loadAnimationDuration) *)
Progress(elapsed, duration) ==
    IF elapsed >= duration THEN FP
    ELSE IF elapsed <= 0 THEN 0
    ELSE (elapsed * FP) \div duration

(* faulty variants of the completion test *)
LoadingDoneEarly(cfg, t) ==
    2 * Progress(t - cfg.loadAnimationStartTime, cfg.loadAnimationDuration) >= FP
LoadingDoneNever(cfg, t) ==
    Progress(t - cfg.loadAnimationStartTime, cfg.loadAnimationDuration) > FP

(* "if (progress >= 1.0)" *)
LoadingDone(cfg, t) ==
    Progress(t - cfg.loadAnimationStartTime, cfg.loadAnimationDuration) >= FP

(* depth brightness from the Z distance to the camera, fixed range 0..70 *)
DepthBrightness(z) ==
    LET distance   == Abs(z - CameraZ * FP)
        normalized == Clamp01(Scale(distance, 1, FixedMaxDistance))
    IN  FP - Scale(normalized, DepthDarkeningStrength, FP)

Grey(b) == <<b, b, b>>

(* a faulty variant of the loading branch: the distance is normalised by
   the largest distance in the cloud *)
LoadingFrameDynamicRange(st, cfg, t) ==
    LET progress == Progress(t - cfg.loadAnimationStartTime, cfg.loadAnimationDuration)
        easing   == bezierEasing(progress, cfg.loadAnimationEasingCurve)
        actual   == Min(st.totalParticleCount, Len(st.positions))
        pos      == [i \in 1..Len(st.positions) |->
                       IF i <= actual
                       THEN VAdd(st.startPositions[i],
                                 VMul(VSub(st.originalPositions[i], st.startPositions[i]),
                                      easing))
                       ELSE st.positions[i]]
        Dist(i)  == Abs(pos[i][3] - CameraZ * FP) \div 100
        far      == CHOOSE d \in {Dist(i) : i \in 1..actual} :
                        \A i \in 1..actual : Dist(i) <= d
    IN  [st EXCEPT
          !.positions = pos,
          !.colors = [i \in 1..Len(@) |->
                        IF i <= actual
                        THEN Grey(FP - Scale(Clamp01(Scale(Dist(i), FP, Max(far, 1))),
                                             DepthDarkeningStrength, FP))
                        ELSE @[i]],
          !.glows = [i \in 1..Len(@) |->
                        IF i <= actual THEN Mul(GlowBrightness, easing) ELSE @[i]]]

(* the loading branch: interpolation, depth colours, glow ramp *)
LoadingFrame(st, cfg, t) ==
    LET progress == Progress(t - cfg.loadAnimationStartTime, cfg.loadAnimationDuration)
        easing   == bezierEasing(progress, cfg.loadAnimationEasingCurve)
        actual   == Min(st.totalParticleCount, Len(st.positions))
        pos      == [i \in 1..Len(st.positions) |->
                       IF i <= actual
                       THEN VAdd(st.startPositions[i],
                                 VMul(VSub(st.originalPositions[i], st.startPositions[i]),
                                      easing))
                       ELSE st.positions[i]]
    IN  [st EXCEPT
          !.positions = pos,
          !.colors = [i \in 1..Len(@) |->
                        IF i <= actual THEN Grey(Clamp01(DepthBrightness(pos[i][3])))
                        ELSE @[i]],
          !.glows = [i \in 1..Len(@) |->
                        IF i <= actual THEN Mul(GlowBrightness, easing) ELSE @[i]]]

RECURSIVE SqrtBetween(_, _, _)
SqrtBetween(s, lo, hi) ==
    IF hi - lo <= 1 THEN lo
    ELSE LET mid == (lo + hi) \div 2
         IN  IF mid * mid <= s THEN SqrtBetween(s, mid, hi) ELSE SqrtBetween(s, lo, mid)
(* Math.sqrt(vx*vx + vy*vy + vz*vz), rounded down *)
Magnitude(v) ==
    LET big == Max(Abs(v[1]), Max(Abs(v[2]), Abs(v[3])))
        k   == (big \div (2 * FP)) + 1          \* keeps the squares in range
        w   == <<Abs(v[1]) \div k, Abs(v[2]) \div k, Abs(v[3]) \div k>>
        m   == Max(w[1], Max(w[2], w[3]))
    IN  IF m = 0 THEN 0
        ELSE k * SqrtBetween(w[1] * w[1] + w[2] * w[2] + w[3] * w[3], m, 2 * m)

----------------------------------------------------------------------------
(* The pointer *)

(* the handlers' variables before any pointer event, with the pointer away
   from the canvas and no button held.  overCanvas and buttonHeld are where
   the pointer and its button really are; forced is the set of particles to
   which the latest frame added a pointer force. *)
PointerAtStart ==
    [ isPointerInsideCanvas |-> FALSE, isPointerDown |-> FALSE,
      mouseMovedThisFrame |-> FALSE, mouseVelocity |-> <<0, 0>>,
      mouse |-> <<0, 0>>, mouse3D |-> Zero3,
      overCanvas |-> FALSE, buttonHeld |-> FALSE, forced |-> {} ]
(* "if (!mouseMovedThisFrame) mouseVelocity.set(0, 0); mouseMovedThisFrame =
   false" *)
MouseVelocityReset(ptr) ==
    [ptr EXCEPT !.mouseVelocity = IF ptr.mouseMovedThisFrame THEN @ ELSE <<0, 0>>,
                !.mouseMovedThisFrame = FALSE]

(* updateMousePosition for an event at the normalized position m: the ray of
   the orthographic camera meets the plane z = 0 straight below m *)
updateMousePosition(ptr, m) ==
    [ptr EXCEPT !.mouseVelocity = <<m[1] - ptr.mouse[1], m[2] - ptr.mouse[2]>>,
                !.mouse = m,
                !.mouseMovedThisFrame = TRUE,
                !.mouse3D = <<Scale(m[1], ViewportWidth \div 2, FP),
                              Scale(m[2], ViewportHeight \div 2, FP), 0>>]

Cross(a, b) ==
    <<Mul(a[2], b[3]) - Mul(a[3], b[2]),
      Mul(a[3], b[1]) - Mul(a[1], b[3]),
      Mul(a[1], b[2]) - Mul(a[2], b[1])>>
(* Vector3.normalize: the zero vector stays zero *)
Normalize(v) == IF Magnitude(v) = 0 THEN Zero3 ELSE VScale(v, FP, Magnitude(v))

(* speed and interactionActive, from the handlers' variables as the reset at
   the top of updatePhysics leaves them *)
PointerSpeed(ptr) == Magnitude(<<ptr.mouseVelocity[1], ptr.mouseVelocity[2], 0>>)
InteractionActive(ptr) ==
    ptr.isPointerInsideCanvas /\ (ptr.isPointerDown \/ PointerSpeed(ptr) > FP \div 1000)
(* the value (Math.random() - 0.5) * 2 * zAxisStrength takes in a frame, for
   Math.random() at 0.75; no draw is made while the interaction is off *)
PointerDraws(ptr) ==
    IF InteractionActive(ptr) THEN {ZAxisStrength \div 2} ELSE {0}
(* what the pointer block adds to the velocity of a particle at pos; the
   chaos angle and the tangential angle are drawn as 0 and the force
   variation as 1.0, z is the drawn Z component *)
PointerForceOn(pos, ptr, z) ==
    LET d        == VSub(pos, ptr.mouse3D)
        distance == Magnitude(d)
    IN  IF ~InteractionActive(ptr) \/ distance >= InteractionRadius THEN Zero3
        ELSE LET forceMultiplier == Min(Mul(ForceStrength, PointerSpeed(ptr)),
                                        2 * ForceStrength)
                 baseDirection == Normalize(d)
                 t1      == Cross(baseDirection, <<0, 0, FP>>)
                 tangent == Normalize(IF Magnitude(t1) < FP \div 10
                                      THEN Cross(baseDirection, <<FP, 0, 0>>) ELSE t1)
                 force   == Mul(forceMultiplier,
                                FP - Scale(distance, FP, InteractionRadius))
                 final   == VAdd(VTimes(Mul(force, FP - TangentialForceRatio),
                                        baseDirection),
                                 VTimes(Mul(force, TangentialForceRatio), tangent))
             IN  VScale(VAdd(final, <<0, 0, z>>), Mul(FP \div 5, TimeScale), FP)

----------------------------------------------------------------------------
(* Periodic waves *)

WaveSigma == WaveWidth \div 2
WaveCutoffDistance == 2 * WaveSigma
(* maxWaveRadius = Math.sqrt(w * w + h * h) / 2 *)
MaxWaveRadius == Magnitude(<<ViewportWidth, ViewportHeight, 0>>) \div 2
(* a faulty variant of the removal bound: the whole diagonal *)
WaveRemovalBoundFullDiagonal == 2 * MaxWaveRadius + WaveWidth
(* "wave.radius >= maxWaveRadius + CONFIG.waveWidth" *)
WaveRemovalBound == MaxWaveRadius + WaveWidth
(* "wave.radius += CONFIG.waveSpeed * dt * CONFIG.timeScale", dt = 0.016 *)
WaveStep == Mul(Mul(WaveSpeed, DtNominal), TimeScale)
WaveAdvance(w) == [w EXCEPT !.radius = @ + WaveStep]
(* a faulty variant of the band centre: the radius itself *)
WaveCenterAtFront(w) == w.radius
(* "waveCenterRadius = wave.radius - CONFIG.waveWidth / 2" *)
WaveCenterRadius(w) == w.radius - WaveWidth \div 2

(* a faulty variant of the creation test: a wave on every frame *)
WaveDueAlways(last, t) == t >= last
(* "timeSinceLastWave >= CONFIG.waveInterval" *)
WaveDue(last, t) == t - last >= WaveInterval

(* the wave block of updatePhysics, reached with isLoadingAnimation false:
   the cadence timer, the creation of a wave, then the advance and the
   removal of every wave of the list *)
WaveFrame(cfg, t) ==
    IF ~cfg.waveEnabled THEN cfg
    ELSE LET last   == IF cfg.lastWaveTime = NoTime THEN t ELSE cfg.lastWaveTime
             create == WaveDue(last, t)
             waves1 == IF create
                       THEN Append(cfg.waves, [radius |-> 0, startTime |-> t])
                       ELSE cfg.waves
             moved  == [k \in 1..Len(waves1) |-> WaveAdvance(waves1[k])]
         IN  [cfg EXCEPT
                !.lastWaveTime = IF create THEN t ELSE last,
                !.waves = SelectSeq(moved, LAMBDA w : w.radius < WaveRemovalBound)]

(* Math.exp(-e) for 0 <= e: a table at the multiples of 0.25 up to 2, linear
   in between *)
ExpNegTable == <<10000, 7788, 6065, 4724, 3679, 2865, 2231, 1738, 1353>>
ExpNeg(e) ==
    LET q == FP \div 4
        k == e \div q
    IN  IF k >= 8 THEN ExpNegTable[9]
        ELSE ExpNegTable[k + 1]
             - ((ExpNegTable[k + 1] - ExpNegTable[k + 2]) * (e % q)) \div q
(* "Math.exp(-CONFIG.waveForceFalloff * normalizedDist * normalizedDist)" *)
GaussianFactor(distanceFromCenter) ==
    LET normalizedDist == Scale(distanceFromCenter, FP, WaveSigma)
    IN  ExpNeg(Mul(WaveForceFalloff, Mul(normalizedDist, normalizedDist)))

(* the sum over the waves whose band holds a point at the distance dist from
   the wave centre of the Gaussian factor there *)
RECURSIVE WaveFactorSum(_, _, _)
WaveFactorSum(waves, dist, k) ==
    IF k = 0 THEN 0
    ELSE LET d == Abs(dist - WaveCenterRadius(waves[k]))
         IN  WaveFactorSum(waves, dist, k - 1)
             + (IF d <= WaveCutoffDistance THEN GaussianFactor(d) ELSE 0)
waveActive(cfg) == cfg.waveEnabled /\ Len(cfg.waves) > 0
(* totalWaveSizeFactor of a particle at pos; the wave centre is the origin *)
WaveSizeFactor(pos, cfg) ==
    IF waveActive(cfg) THEN WaveFactorSum(cfg.waves, Magnitude(pos), Len(cfg.waves))
    ELSE 0
(* totalWaveForce: radial, away from the centre, waveForce * forceFactor *
   timeScale per wave; the model keeps no particle at the centre itself,
   where the code divides by a zero distance *)
WaveForceOn(pos, cfg) ==
    LET factor == WaveSizeFactor(pos, cfg)
    IN  IF factor = 0 THEN Zero3
        ELSE VScale(pos, Mul(Mul(WaveForce, factor), TimeScale), Magnitude(pos))

(* the velocity increments Math.random() can give one particle in one frame:
   none (Math.random() >= 0.3, or autonomousMotionStrength = 0), or
   (Math.random() - 0.5) * randomFactor on X with the other two draws at 0.5 *)
JitterHundredths == {-19, 10}
JitterDraws(cfg) ==
    IF cfg.autonomousMotionStrength > 0
    THEN {Zero3} \cup
         { <<Scale(k * Scale(Scale(cfg.autonomousMotionStrength, 3, 10), TimeScale, FP),
                   1, 100), 0, 0>> : k \in JitterHundredths }
    ELSE {Zero3}

(* a faulty variant of the rest test: only the exact rest state *)
BelowThresholdExact(disp, vel) == disp = Zero3 /\ vel = Zero3

(* "displacementLengthSq < thresholdSq && velocityLengthSq < thresholdSq" *)
BelowThreshold(disp, vel) ==
    LengthSqBelow(disp, RestThreshold) /\ LengthSqBelow(vel, RestThreshold)

(* hasExplosions, and the explosions of the list not yet applied: the number
   of impulses each particle receives in the frame *)
PendingExplosions(cfg) ==
    IF cfg.explosionEnabled
    THEN Len(SelectSeq(cfg.explosions, LAMBDA e : ~e.applied))
    ELSE 0
(* a faulty variant of the cleanup: the list is left as it was *)
ExplosionCleanupKeepsAll(explosions) == explosions
(* the cleanup at the end of updatePhysics: every explosion is marked applied
   and the applied ones are filtered out *)
ExplosionCleanup(explosions) ==
    SelectSeq([k \in 1..Len(explosions) |-> [explosions[k] EXCEPT !.applied = TRUE]],
              LAMBDA e : ~e.applied)

(* one particle through the main loop of updatePhysics: jitter, explosion
   impulses and timers, the wave force, the pre-spring advance, then free
   flight, the snap to rest or the spring.  n is the number of pending
   explosions applied. *)
ParticleStep(p, cfg, t, jitter, n) ==
    LET v1   == VAdd(p.vel, jitter)
        v2   == VAdd(VAdd(v1, VMul(p.dir, n * ExplosionImpulse)),
                     WaveForceOn(p.pos, cfg))
        ret  == IF n > 0 THEN ToFloat32(Max(p.ret, t + ExplosionReturnDelay))
                ELSE p.ret
        glw  == IF n > 0 THEN ToFloat32(Max(p.glowEnd, t + ExplosionGlowDuration))
                ELSE p.glowEnd
        pos1 == VAdd(p.pos, VScale(v2, TimeScale, FP))
        disp == VSub(p.target, pos1)
        dtN  == Mul(DtNominal, TimeScale)
        dtE  == Mul(dtN, ExplosionSpeed)
    IN  IF ret > t
        THEN LET v3 == VScale(v2, 98, 100)
             IN  [pos |-> VAdd(pos1, VScale(v3, dtE, FP)), vel |-> v3,
                  ret |-> ret, glowEnd |-> glw]
        ELSE IF BelowThreshold(disp, v2)
        THEN [pos |-> p.target, vel |-> Zero3, ret |-> ret, glowEnd |-> glw]
        ELSE LET v3 == VScale(VAdd(v2, VScale(VScale(disp, SpringConstant, FP), dtN, FP)),
                              Damping, FP)
             IN  [pos |-> VAdd(pos1, VScale(v3, dtN, FP)), vel |-> v3,
                  ret |-> ret, glowEnd |-> glw]

(* the size of an invisible particle while a wave passes: minSize plus a
   hash of its index times the size range, here the middle of the range *)
InvisibleBaseSize == PointSize
(* "sizes[i] = ..." of a frame with an active wave *)
WaveSize(baseSize, factor) ==
    IF baseSize = 0
    THEN (IF factor > 0 THEN Mul(InvisibleBaseSize, Min(factor, FP)) ELSE 0)
    ELSE Mul(baseSize, FP + factor \div 2)

(* actualParticleCount *)
ActualParticleCount(st) ==
    Min(st.totalParticleCount,
    Min(Len(st.positions),
    Min(Len(st.originalPositions),
    Min(Len(st.startPositions),
    Min(Len(st.velocities), Len(st.colors))))))

(* the main loop of updatePhysics past the loading branch and the wave
   block: every particle stepped.  cfg is CONFIG as the frame found it, wcfg
   is CONFIG as the wave block leaves it; jitter gives each particle its
   draw; push is what the pointer block adds to each velocity. *)
PointerForces(st, ptr, z) ==
    [i \in 1..ActualParticleCount(st) |-> PointerForceOn(st.positions[i], ptr, z)]
ParticleSteps(st, cfg, wcfg, t, jitter, push) ==
    LET n      == PendingExplosions(cfg)
        RetAt(i)  == IF i <= Len(st.explosionReturnTimes)
                     THEN st.explosionReturnTimes[i] ELSE 0
        GlowAt(i) == IF i <= Len(st.explosionGlowEndTimes)
                     THEN st.explosionGlowEndTimes[i] ELSE 0
    IN  [i \in 1..ActualParticleCount(st) |->
            ParticleStep([pos |-> st.positions[i],
                          vel |-> VAdd(st.velocities[i], push[i]),
                          target |-> st.originalPositions[i],
                          dir |-> st.scrollDirections[i],
                          ret |-> RetAt(i), glowEnd |-> GlowAt(i)],
                         wcfg, t, jitter, n)]

(* the arrays after the main loop has given step and the colour pass has
   run; was is wasWaveActive, the waves having been active in the frame
   before, when the sizes go back to the base sizes *)
SettledFrame(st, cfg, wcfg, t, step, was) ==
    LET actual == ActualParticleCount(st)
        size   == [i \in 1..Len(st.sizes) |->
                     IF waveActive(wcfg) /\ i <= actual /\ i <= Len(st.baseSizes)
                     THEN WaveSize(st.baseSizes[i], WaveSizeFactor(st.positions[i], wcfg))
                     ELSE IF ~waveActive(wcfg) /\ was /\ i <= Len(st.baseSizes)
                     THEN st.baseSizes[i]
                     ELSE st.sizes[i]]
        Brightness(i) ==
            LET hidden == /\ i <= Len(st.baseSizes) /\ st.baseSizes[i] = 0
                          /\ size[i] = 0
                base   == IF hidden THEN 0 ELSE DepthBrightness(st.positions[i][3])
                scaled == Mul(base, cfg.maxBrightness)
                wglow  == Min(Mul(WaveGlowIntensity, WaveSizeFactor(step[i].pos, wcfg)),
                              WaveGlowIntensity)
                dimmed == (IF i - 1 >= cfg.particleCount
                              /\ cfg.maxBrightness < (99 * FP) \div 100
                           THEN scaled \div 2 ELSE scaled) + wglow
                glow   == IF /\ cfg.explosionEnabled
                             /\ i <= Len(st.explosionGlowEndTimes)
                             /\ step[i].glowEnd > t
                          THEN Scale(ExplosionGlowIntensity, step[i].glowEnd - t,
                                     ExplosionGlowDuration)
                          ELSE 0
            IN  Min(dimmed + glow, FP)
    IN  [st EXCEPT
          !.positions = [i \in 1..Len(@) |-> IF i <= actual THEN step[i].pos ELSE @[i]],
          !.velocities = [i \in 1..Len(@) |-> IF i <= actual THEN step[i].vel ELSE @[i]],
          !.explosionReturnTimes =
              [i \in 1..Len(@) |-> IF i <= actual THEN step[i].ret ELSE @[i]],
          !.explosionGlowEndTimes =
              [i \in 1..Len(@) |-> IF i <= actual THEN step[i].glowEnd ELSE @[i]],
          !.sizes = size,
          !.colors = [i \in 1..Len(@) |-> IF i <= actual THEN Grey(Brightness(i)) ELSE @[i]],
          !.glows = [i \in 1..Len(@) |->
                       IF i <= actual
                       THEN Min(GlowBrightness
                                + Mul(Magnitude(step[i].vel), VelocityGlowMultiplier), FP)
                       ELSE @[i]]]

(* the per-particle arrays a settled frame reads or writes *)
FrameArrays ==
    {"positions", "originalPositions", "startPositions", "scrollDirections",
     "velocities", "colors", "sizes", "baseSizes", "glows",
     "explosionGlowEndTimes", "explosionReturnTimes"}
(* the elements <<array, index>> the main loop and the colour pass of a
   settled frame read or write: positions, velocities, originalPositions and
   colors for every index below actualParticleCount; scrollDirections with
   no test of its length when an explosion is pending; the timers, baseSizes
   and glows behind a test of their own length; sizes behind the test of the
   length of baseSizes, written while a wave is active and read for an
   invisible particle *)
FrameAccesses(st, cfg, wcfg) ==
    UNION { {<<"positions", i>>, <<"velocities", i>>, <<"originalPositions", i>>,
             <<"colors", i>>}
            \cup (IF PendingExplosions(cfg) > 0 THEN {<<"scrollDirections", i>>} ELSE {})
            \cup (IF i <= Len(st.explosionReturnTimes)
                  THEN {<<"explosionReturnTimes", i>>} ELSE {})
            \cup (IF i <= Len(st.explosionGlowEndTimes)
                     /\ (PendingExplosions(cfg) > 0 \/ cfg.explosionEnabled)
                  THEN {<<"explosionGlowEndTimes", i>>} ELSE {})
            \cup (IF i <= Len(st.baseSizes) THEN {<<"baseSizes", i>>} ELSE {})
            \cup (IF i <= Len(st.baseSizes) /\ (waveActive(wcfg) \/ st.baseSizes[i] = 0)
                  THEN {<<"sizes", i>>} ELSE {})
            \cup (IF i <= Len(st.glows) THEN {<<"glows", i>>} ELSE {})
          : i \in 1..ActualParticleCount(st) }

----------------------------------------------------------------------------
(* The stored settings.  A JSON text is modelled by its structure, with each
   number literal as its sequence of characters. *)

DigitChars == <<"0", "1", "2", "3", "4", "5", "6", "7", "8", "9">>
DigitValue(c) == CHOOSE n \in 0..9 : DigitChars[n + 1] = c
RECURSIVE IntegerDigits(_)
IntegerDigits(n) ==
    IF n < 10 THEN <<DigitChars[n + 1]>>
    ELSE Append(IntegerDigits(n \div 10), DigitChars[(n % 10) + 1])
(* a faulty variant of the fraction: two decimal places, truncated *)
FractionDigitsTwo(f, unit) ==
    <<DigitChars[(f \div (unit \div 10)) + 1],
      DigitChars[((f \div (unit \div 100)) % 10) + 1]>>
(* the digits of f / unit, 0 < f < unit, with no trailing zero *)
RECURSIVE FractionDigits(_, _)
FractionDigits(f, unit) ==
    IF f = 0 THEN <<>>
    ELSE <<DigitChars[(f \div (unit \div 10)) + 1]>>
         \o FractionDigits(f % (unit \div 10), unit \div 10)

(* JSON.stringify of the non-negative number v / unit: the shortest decimal
   literal that reads back as the same number *)
NumberToString(v, unit) ==
    IntegerDigits(v \div unit)
    \o (IF v % unit = 0 THEN <<>> ELSE <<".">> \o FractionDigits(v % unit, unit))

RECURSIVE DigitsToInteger(_, _)
DigitsToInteger(s, n) ==
    IF n = 0 THEN 0 ELSE 10 * DigitsToInteger(s, n - 1) + DigitValue(s[n])
RECURSIVE DigitsToFraction(_, _, _)
DigitsToFraction(s, k, unit) ==
    IF k > Len(s) \/ unit < 10 THEN 0
    ELSE DigitValue(s[k]) * (unit \div 10) + DigitsToFraction(s, k + 1, unit \div 10)
(* JSON.parse of a number literal, in units of 1 / unit *)
StringToNumber(s, unit) ==
    LET dots == {k \in 1..Len(s) : s[k] = "."}
        dot  == IF dots = {} THEN Len(s) + 1 ELSE CHOOSE k \in dots : TRUE
    IN  DigitsToInteger(s, dot - 1) * unit + DigitsToFraction(s, dot + 1, unit)

(* JSON.stringify(configToSave) *)
StringifyConfig(cfg) ==
    [ loadAnimationDuration |-> NumberToString(cfg.loadAnimationDuration, 1),
      loadAnimationEasingCurve |->
          [k \in DOMAIN cfg.loadAnimationEasingCurve |->
              NumberToString(cfg.loadAnimationEasingCurve[k], FP)] ]
(* saveConfigToStorage: the new value of the item *)
saveConfigToStorage(cfg) == <<StringifyConfig(cfg)>>
(* JSON.parse(saved) *)
ParseConfig(text) ==
    [ loadAnimationDuration |-> StringToNumber(text.loadAnimationDuration, 1),
      loadAnimationEasingCurve |->
          [k \in DOMAIN text.loadAnimationEasingCurve |->
              StringToNumber(text.loadAnimationEasingCurve[k], FP)] ]
(* savedConfig?.loadAnimationDuration ?? 4000 and
   savedConfig?.loadAnimationEasingCurve ?? { ... }, with savedConfig =
   loadConfigFromStorage() *)
loadConfigFromStorage(item) ==
    IF item = NoItem
    THEN [ loadAnimationDuration |-> DefaultLoadDuration,
           loadAnimationEasingCurve |-> DefaultEasingCurve ]
    ELSE ParseConfig(item[1])

(* the CONFIG object as the script creates it *)
ConfigAtStart(item) ==
    [ particleCount |-> DefaultParticleCount,
      outsideParticleCount |-> DefaultOutsideCount,
      outsideInvisiblePercentage |-> 0,
      autonomousMotionStrength |-> AutonomousMotionStrength,
      isLoadingAnimation |-> TRUE,
      loadAnimationStartTime |-> NoTime,
      loadAnimationDuration |-> loadConfigFromStorage(item).loadAnimationDuration,
      loadAnimationEasingCurve |-> loadConfigFromStorage(item).loadAnimationEasingCurve,
      explosionEnabled |-> TRUE,
      explosions |-> <<>>,
      maxBrightness |-> MaxBrightness,
      waveEnabled |-> FALSE,
      lastWaveTime |-> NoTime,
      waves |-> <<>> ]

----------------------------------------------------------------------------
(* Page load *)

InitProgram ==
    /\ CONFIG = ConfigAtStart(NoItem)
    /\ positions = ZeroArray3(DefaultParticleCount)
    /\ originalPositions = ZeroArray3(DefaultParticleCount)
    /\ baseOriginalPositions = ZeroArray3(DefaultParticleCount)
    /\ startPositions = ZeroArray3(DefaultParticleCount)
    /\ scrollDirections = ZeroArray3(DefaultParticleCount)
    /\ velocities = ZeroArray3(DefaultParticleCount)
    /\ colors = ZeroArray3(DefaultParticleCount)
    /\ sizes = ZeroArray(DefaultParticleCount)
    /\ baseSizes = ZeroArray(DefaultParticleCount)
    /\ glows = ZeroArray(DefaultParticleCount)
    /\ explosionGlowEndTimes = ZeroArray(DefaultParticleCount)
    /\ explosionReturnTimes = ZeroArray(DefaultParticleCount)
    /\ totalParticleCount = DefaultParticleCount
    /\ baseIndex = DefaultParticleCount
    /\ isInitialized = FALSE
    /\ geometry = FALSE
    /\ svgLoad = "pending"
    /\ initState = "running"
    /\ tasks = {}
    /\ committedLatest = TRUE
    /\ particleCountTimeout = NoTime
    /\ outsideParticleCountTimeout = NoTime
    /\ scrollY = 0
    /\ scrollProgress = 0
    /\ previousScrollProgress = 0
    /\ scrollTimeout = FALSE
    /\ now = 0
    /\ inputs = 0
    /\ lastFrameTime = 0
    /\ maxFPS = 0
    /\ rafAnimate = TRUE       \* animate() has run once and rescheduled itself
    /\ currentTime = 0
    /\ lastProcessedTime = 0
    /\ waveCreatedAt = NoTime
    /\ wasWaveActive = FALSE
    /\ pointer = PointerAtStart
    /\ localStorage = NoItem

(* the first visit of the page *)
Init == InitProgram /\ calc = NoCalc

----------------------------------------------------------------------------
(* Formation builds *)

(* the end of one generateParticlesFromSVG call and of its caller, run in one
   turn once the sampling promise resolves: merge and swap, then for
   recreateParticles the restoration and the restart of the loading
   animation, for the init IIFE the initialized flag and the start time *)
Finish(task, rest) ==
    \E inv \in InvisibleDraws(CONFIG.outsideInvisiblePercentage) :
      LET filtered == FilterOutsidePoints(task.outsidePoints, task.target)
          count    == CONFIG.particleCount
          st1      == CommitArrays(Store, task.temp, filtered, count, task.r, inv)
          st2      == IF task.kind = "recreate"
                      THEN RestoreArrays(st1, task.old, count) ELSE st1
          st3      == ResizeGlows(st2)
          inited   == isInitialized \/ task.kind = "init"
      IN  /\ SetStore(ScrollApplied(st3, inited, scrollProgress))
          /\ geometry' = TRUE
          /\ isInitialized' = inited
          /\ initState' = IF task.kind = "init" THEN "done" ELSE initState
          /\ CONFIG' = [CONFIG EXCEPT
                          !.isLoadingAnimation =
                              IF task.kind = "recreate" THEN TRUE ELSE @,
                          !.loadAnimationStartTime = now]
          /\ committedLatest' = task.latest
          /\ tasks' = rest

(* generateParticlesFromSVG up to the first batch of the outside sampling *)
Generate(kind, old) ==
    \E r \in Runs :
      LET target   == CONFIG.outsideParticleCount
          cand     == target * CandidateFactor
          batchEnd == Min(BatchSize, cand)
          task     == [ kind |-> kind, old |-> old,
                        temp |-> TempArrays(CONFIG.particleCount, r),
                        target |-> target, r |-> r, processed |-> batchEnd,
                        outsidePoints |-> BatchOutsidePoints(r, 0, batchEnd),
                        latest |-> TRUE ]
          older    == {[t EXCEPT !.latest = FALSE] : t \in tasks}
      IN  IF batchEnd < cand
          THEN /\ tasks' = older \cup {task}
               /\ committedLatest' = FALSE
               /\ UNCHANGED <<CONFIG, arrays, isInitialized, geometry, initState>>
          ELSE Finish(task, older)

(* requestAnimationFrame(processBatch) of one pending call *)
ProcessBatch ==
    \E t \in tasks :
      LET cand     == t.target * CandidateFactor
          batchEnd == Min(t.processed + BatchSize, cand)
          next     == [t EXCEPT !.processed = batchEnd,
                                !.outsidePoints =
                                    @ \o BatchOutsidePoints(t.r, t.processed, batchEnd)]
      IN  /\ IF batchEnd < cand
             THEN /\ tasks' = (tasks \ {t}) \cup {next}
                  /\ UNCHANGED <<CONFIG, arrays, isInitialized, geometry, initState,
                                 committedLatest>>
             ELSE Finish(next, tasks \ {t})
          /\ UNCHANGED <<svgLoad, particleCountTimeout, outsideParticleCountTimeout,
                         scroll, now, frame>>
    /\ UNCHANGED <<inputs, localStorage, calc>>

(* loadSVG resolves: the init IIFE's generateParticlesFromSVG goes on *)
SvgLoaded ==
    /\ svgLoad = "pending"
    /\ svgLoad' = "loaded"
    /\ Generate("init", SavedArrays(Store, 0))
    /\ UNCHANGED <<particleCountTimeout, outsideParticleCountTimeout, scroll, now, frame>>
    /\ UNCHANGED <<inputs, localStorage, calc>>

(* loadSVG rejects: the catch of the init IIFE replaces the page *)
SvgFailed ==
    /\ svgLoad = "pending"
    /\ svgLoad' = "failed"
    /\ initState' = "failed"
    /\ UNCHANGED <<CONFIG, arrays, isInitialized, geometry, tasks, committedLatest,
                   particleCountTimeout, outsideParticleCountTimeout, scroll, now, frame>>
    /\ UNCHANGED <<inputs, localStorage, calc>>

----------------------------------------------------------------------------
(* The clock and the user *)

(* the user acts, and the clock is observed, in a first window after page
   load and in a second one after the page has stayed open for some hours *)
InWindow ==
    \/ now < MaxTicks * TickMs
    \/ now >= LateNow /\ now < LateNow + MaxLateTicks * TickMs

LoadingPending ==
    /\ isInitialized /\ CONFIG.isLoadingAnimation
    /\ now < CONFIG.loadAnimationStartTime + CONFIG.loadAnimationDuration

(* the waves are watched for a longer window *)
InWaveWindow == now < MaxWaveTicks * TickMs
WavesPending == CONFIG.waveEnabled /\ InWaveWindow

(* time passes; the SVG loads or fails within the first TickMs, and the
   display calls animate at least once between two readings of the clock *)
Tick ==
    /\ svgLoad # "pending"
    /\ currentTime = now
    /\ InWindow \/ LoadingPending \/ WavesPending
    /\ now' = now + TickMs
    /\ UNCHANGED <<CONFIG, arrays, isInitialized, geometry, build, scroll, frame>>
    /\ UNCHANGED <<inputs, localStorage, calc>>

(* the next reading of the clock comes NearMs after the last one: 2 ms
   short of the 500 ms interval of a 2 fps ceiling, within its tolerance *)
NearMs == 500 - 2
TickNear ==
    /\ svgLoad # "pending"
    /\ currentTime = now
    /\ InWindow \/ LoadingPending
    /\ now' = now + NearMs
    /\ UNCHANGED <<CONFIG, arrays, isInitialized, geometry, build, scroll, frame>>
    /\ UNCHANGED <<inputs, localStorage, calc>>

(* the page stays open and idle until the clock reads LateNow *)
Sleep ==
    /\ isInitialized /\ ~CONFIG.isLoadingAnimation
    /\ tasks = {} /\ particleCountTimeout = NoTime /\ outsideParticleCountTimeout = NoTime
    /\ currentTime = now
    /\ now < LateNow
    /\ now' = LateNow
    /\ UNCHANGED <<CONFIG, arrays, isInitialized, geometry, build, scroll, frame>>
    /\ UNCHANGED <<inputs, localStorage, calc>>

(* the controls and the canvas exist until the error page replaces them *)
UserCan == initState # "failed" /\ InWindow /\ inputs < MaxInputs

(* 'input' on the particleCount slider; the user moves the count sliders
   once the formation has appeared *)
ParticleCountInput ==
    /\ UserCan /\ initState = "done"
    /\ \E v \in ParticleCounts \ {CONFIG.particleCount} :
          CONFIG' = [CONFIG EXCEPT !.particleCount = v]
    /\ particleCountTimeout' = now + DebounceMs
    /\ UNCHANGED <<arrays, isInitialized, geometry, svgLoad, initState, tasks,
                   committedLatest, outsideParticleCountTimeout, scroll, now, frame>>
    /\ inputs' = inputs + 1
    /\ UNCHANGED <<localStorage, calc>>

(* 'input' on the outsideParticleCount slider *)
OutsideParticleCountInput ==
    /\ UserCan /\ initState = "done"
    /\ \E v \in OutsideCounts \ {CONFIG.outsideParticleCount} :
          CONFIG' = [CONFIG EXCEPT !.outsideParticleCount = v]
    /\ outsideParticleCountTimeout' = now + DebounceMs
    /\ UNCHANGED <<arrays, isInitialized, geometry, svgLoad, initState, tasks,
                   committedLatest, particleCountTimeout, scroll, now, frame>>
    /\ inputs' = inputs + 1
    /\ UNCHANGED <<localStorage, calc>>

(* recreateParticles up to the first batch of the sampling *)
recreateParticles == Generate("recreate", SavedArrays(Store, CONFIG.particleCount))

(* the debounce timers fire *)
ParticleCountTimeout ==
    /\ particleCountTimeout # NoTime /\ now >= particleCountTimeout
    /\ Cardinality(tasks) < MaxTasks
    /\ particleCountTimeout' = NoTime
    /\ recreateParticles
    /\ UNCHANGED <<svgLoad, outsideParticleCountTimeout, scroll, now, frame>>
    /\ UNCHANGED <<inputs, localStorage, calc>>

OutsideParticleCountTimeout ==
    /\ outsideParticleCountTimeout # NoTime /\ now >= outsideParticleCountTimeout
    /\ Cardinality(tasks) < MaxTasks
    /\ outsideParticleCountTimeout' = NoTime
    /\ recreateParticles
    /\ UNCHANGED <<svgLoad, particleCountTimeout, scroll, now, frame>>
    /\ UNCHANGED <<inputs, localStorage, calc>>

(* 'click' on the restart button: saveConfigToStorage, restartLoadAnimation *)
restartLoadAnimation ==
    /\ UserCan
    /\ isInitialized /\ geometry
    /\ LET actual == Min(totalParticleCount, Len(positions))
       IN  positions' = [i \in 1..Len(positions) |->
                           IF i <= actual THEN startPositions[i] ELSE positions[i]]
    /\ glows' = ZeroArray(Len(glows))
    /\ CONFIG' = [CONFIG EXCEPT !.isLoadingAnimation = TRUE,
                                !.loadAnimationStartTime = now]
    /\ UNCHANGED <<originalPositions, baseOriginalPositions, startPositions,
                   scrollDirections, velocities, colors, sizes, baseSizes,
                   explosionGlowEndTimes, explosionReturnTimes, totalParticleCount,
                   baseIndex, isInitialized, geometry, build, scroll, now, frame>>
    /\ inputs' = inputs + 1
    /\ localStorage' = saveConfigToStorage(CONFIG)
    /\ UNCHANGED calc

onExplosionClick ==
    /\ UserCan
    /\ CONFIG.explosionEnabled
    /\ Len(CONFIG.explosions) < MaxExplosions
    /\ CONFIG' = [CONFIG EXCEPT !.explosions =
                      Append(@, [applied |-> FALSE])]
    /\ UNCHANGED <<arrays, isInitialized, geometry, build, scroll, now, frame>>
    /\ inputs' = inputs + 1
    /\ UNCHANGED <<localStorage, calc>>

(* 'change' on the explosionEnabled checkbox *)
ExplosionEnabledInput ==
    /\ UserCan
    /\ CONFIG' = [CONFIG EXCEPT !.explosionEnabled = ~@,
                                !.explosions = IF CONFIG.explosionEnabled THEN <<>> ELSE @]
    /\ UNCHANGED <<arrays, isInitialized, geometry, build, scroll, now, frame>>
    /\ inputs' = inputs + 1
    /\ UNCHANGED <<localStorage, calc>>

(* 'change' on the waveEnabled checkbox *)
WaveEnabledInput ==
    /\ initState # "failed" /\ InWaveWindow
    /\ CONFIG' = [CONFIG EXCEPT
                    !.waveEnabled = ~@,
                    !.waves = IF CONFIG.waveEnabled THEN <<>> ELSE @,
                    !.lastWaveTime = IF CONFIG.waveEnabled THEN NoTime ELSE @]
    /\ UNCHANGED <<arrays, isInitialized, geometry, build, scroll, now, frame>>
    /\ UNCHANGED <<inputs, localStorage, calc>>

(* 'input' on the loadAnimationDuration slider: the listener of
   setupControl, then the one that saves *)
LoadAnimationDurationInput ==
    /\ UserCan
    /\ \E d \in LoadDurations \ {CONFIG.loadAnimationDuration} :
          CONFIG' = [CONFIG EXCEPT !.loadAnimationDuration = d]
    /\ UNCHANGED <<arrays, isInitialized, geometry, build, scroll, now, frame>>
    /\ inputs' = inputs + 1
    /\ localStorage' = saveConfigToStorage(CONFIG')
    /\ UNCHANGED calc

(* 'click' on a preset button of the curve editor *)
PresetClick ==
    /\ UserCan
    /\ \E preset \in DOMAIN curvePresets :
          /\ curvePresets[preset] # CONFIG.loadAnimationEasingCurve
          /\ CONFIG' = [CONFIG EXCEPT !.loadAnimationEasingCurve = curvePresets[preset]]
    /\ UNCHANGED <<arrays, isInitialized, geometry, build, scroll, now, frame>>
    /\ inputs' = inputs + 1
    /\ localStorage' = saveConfigToStorage(CONFIG')
    /\ UNCHANGED calc

(* 'mousemove' over the curve editor while a control point is dragged; the
   pointer's Bezier coordinates come clamped to [0, 1] *)
DragXs == {0, (4213 * FP) \div 10000}
DragYs == {FP \div 8, FP}
CurveDrag ==
    /\ UserCan
    /\ \E draggedPoint \in {"p1", "p2"}, x \in DragXs, y \in DragYs :
          CONFIG' = [CONFIG EXCEPT
                       !.loadAnimationEasingCurve =
                           IF draggedPoint = "p1"
                           THEN [@ EXCEPT !.p1x = Clamp01(x), !.p1y = Clamp01(y)]
                           ELSE [@ EXCEPT !.p2x = Clamp01(x), !.p2y = Clamp01(y)]]
    /\ UNCHANGED <<arrays, isInitialized, geometry, build, scroll, now, frame>>
    /\ inputs' = inputs + 1
    /\ localStorage' = saveConfigToStorage(CONFIG')
    /\ UNCHANGED calc

(* the visitor reloads the page: the script starts again, with the item the
   last session left in localStorage *)
Reload ==
    /\ InWindow /\ inputs < MaxInputs
    /\ svgLoad # "pending"
    /\ CONFIG' = ConfigAtStart(localStorage)
    /\ SetStore([ positions |-> ZeroArray3(DefaultParticleCount),
                  originalPositions |-> ZeroArray3(DefaultParticleCount),
                  baseOriginalPositions |-> ZeroArray3(DefaultParticleCount),
                  startPositions |-> ZeroArray3(DefaultParticleCount),
                  scrollDirections |-> ZeroArray3(DefaultParticleCount),
                  velocities |-> ZeroArray3(DefaultParticleCount),
                  colors |-> ZeroArray3(DefaultParticleCount),
                  sizes |-> ZeroArray(DefaultParticleCount),
                  baseSizes |-> ZeroArray(DefaultParticleCount),
                  glows |-> ZeroArray(DefaultParticleCount),
                  explosionGlowEndTimes |-> ZeroArray(DefaultParticleCount),
                  explosionReturnTimes |-> ZeroArray(DefaultParticleCount),
                  totalParticleCount |-> DefaultParticleCount,
                  baseIndex |-> DefaultParticleCount ])
    /\ isInitialized' = FALSE /\ geometry' = FALSE
    /\ svgLoad' = "pending" /\ initState' = "running"
    /\ tasks' = {} /\ committedLatest' = TRUE
    /\ particleCountTimeout' = NoTime /\ outsideParticleCountTimeout' = NoTime
    /\ scrollY' = 0 /\ scrollProgress' = 0 /\ previousScrollProgress' = 0
    /\ scrollTimeout' = FALSE
    /\ now' = 0
    /\ lastFrameTime' = 0 /\ maxFPS' = 0 /\ rafAnimate' = TRUE
    /\ currentTime' = 0 /\ lastProcessedTime' = 0 /\ waveCreatedAt' = NoTime
    /\ wasWaveActive' = FALSE /\ pointer' = PointerAtStart
    /\ inputs' = inputs + 1
    /\ UNCHANGED <<localStorage, calc>>

(* 'input' on the autonomousMotionStrength slider *)
AutonomousMotionInput ==
    /\ UserCan
    /\ \E v \in {0, AutonomousMotionStrength} \ {CONFIG.autonomousMotionStrength} :
          CONFIG' = [CONFIG EXCEPT !.autonomousMotionStrength = v]
    /\ UNCHANGED <<arrays, isInitialized, geometry, build, scroll, now, frame>>
    /\ inputs' = inputs + 1
    /\ UNCHANGED <<localStorage, calc>>

(* The pointer events.  The canvas has the five listeners from the start;
   it gets an event only while the pointer is over it, and a button released
   elsewhere sends it none.  A move brings the pointer to another spot. *)
PointerSpots == {<<0, 0>>, <<FP \div 20, 0>>}
CanvasThere == initState # "failed" /\ InWindow
PointerOnly ==
    /\ UNCHANGED <<CONFIG, arrays, isInitialized, geometry, build, scroll, now>>
    /\ UNCHANGED <<lastFrameTime, maxFPS, rafAnimate, currentTime, lastProcessedTime,
                   waveCreatedAt, wasWaveActive>>
    /\ UNCHANGED <<inputs, localStorage, calc>>
onPointerEnter ==
    /\ CanvasThere /\ ~pointer.overCanvas
    /\ pointer' = [pointer EXCEPT !.overCanvas = TRUE, !.isPointerInsideCanvas = TRUE]
    /\ PointerOnly
onPointerLeave ==
    /\ CanvasThere /\ pointer.overCanvas
    /\ pointer' = [pointer EXCEPT !.overCanvas = FALSE, !.isPointerInsideCanvas = FALSE,
                                  !.mouseVelocity = <<0, 0>>]
    /\ PointerOnly
onPointerMove ==
    /\ CanvasThere /\ pointer.overCanvas
    /\ \E m \in PointerSpots \ {pointer.mouse} :
          pointer' = updateMousePosition(
                         [pointer EXCEPT !.isPointerInsideCanvas = TRUE], m)
    /\ PointerOnly
onPointerDown ==
    /\ CanvasThere /\ pointer.overCanvas /\ ~pointer.buttonHeld
    /\ pointer' = updateMousePosition(
                      [pointer EXCEPT !.buttonHeld = TRUE, !.isPointerDown = TRUE,
                                      !.isPointerInsideCanvas = TRUE],
                      pointer.mouse)
    /\ PointerOnly
onPointerUp ==
    /\ CanvasThere /\ pointer.overCanvas /\ pointer.buttonHeld
    /\ pointer' = [pointer EXCEPT !.buttonHeld = FALSE, !.isPointerDown = FALSE]
    /\ PointerOnly
(* the button is released away from the canvas: no listener of the page runs *)
PointerUpElsewhere ==
    /\ CanvasThere /\ ~pointer.overCanvas /\ pointer.buttonHeld
    /\ pointer' = [pointer EXCEPT !.buttonHeld = FALSE]
    /\ PointerOnly

(* 'input' on the maxFPS slider: updateMaxFPS, then the timer reset; the
   slider's maximum stands for "no ceiling" *)
MaxFPSValues == 0..MaxFPSSetting
MaxFPSInput ==
    /\ UserCan
    /\ \E v \in MaxFPSValues \ {maxFPS} : maxFPS' = v
    /\ lastFrameTime' = now
    /\ UNCHANGED <<CONFIG, arrays, isInitialized, geometry, build, scroll, now,
                   rafAnimate, currentTime, lastProcessedTime, waveCreatedAt,
                   wasWaveActive, pointer>>
    /\ inputs' = inputs + 1
    /\ UNCHANGED <<localStorage, calc>>

----------------------------------------------------------------------------
(* Scroll *)

ScrollYs == {0, FP \div 1250, FP \div 2}
ScrollEpsilon == FP \div 1000                \* 0.001

(* 'scroll' on window: at most one requestAnimationFrame pending *)
ScrollEvent ==
    /\ InWindow /\ inputs < MaxInputs
    /\ \E y \in ScrollYs \ {scrollY} : scrollY' = y
    /\ scrollTimeout' = TRUE
    /\ UNCHANGED <<CONFIG, arrays, isInitialized, geometry, build, scrollProgress,
                   previousScrollProgress, now, frame>>
    /\ inputs' = inputs + 1
    /\ UNCHANGED <<localStorage, calc>>

(* the pending callback: updateScrollProgress *)
updateScrollProgress ==
    /\ scrollTimeout
    /\ scrollTimeout' = FALSE
    /\ previousScrollProgress' = scrollProgress
    /\ scrollProgress' = Clamp01(scrollY)
    /\ IF Abs(scrollProgress' - scrollProgress) > ScrollEpsilon
       THEN SetStore(ScrollApplied(Store, isInitialized, scrollProgress'))
       ELSE UNCHANGED arrays
    /\ UNCHANGED <<CONFIG, isInitialized, geometry, build, scrollY, now, frame>>
    /\ UNCHANGED <<inputs, localStorage, calc>>

----------------------------------------------------------------------------
(* The frame loop *)

(* updatePhysics *)
updatePhysics ==
    IF ~isInitialized \/ ~geometry
    THEN UNCHANGED <<CONFIG, arrays, wasWaveActive, pointer>>
    ELSE LET loading == /\ CONFIG.isLoadingAnimation
                        /\ CONFIG.loadAnimationStartTime # NoTime
         IN  IF loading /\ ~LoadingDone(CONFIG, now)
             THEN /\ SetStore(LoadingFrame(Store, CONFIG, now))
                  /\ pointer' = [MouseVelocityReset(pointer) EXCEPT !.forced = {}]
                  /\ UNCHANGED <<CONFIG, wasWaveActive>>
             ELSE \E j \in JitterDraws(CONFIG),
                     z \in PointerDraws(MouseVelocityReset(pointer)) :
                    LET cfg1 == IF loading
                                THEN [CONFIG EXCEPT
                                        !.isLoadingAnimation = FALSE,
                                        !.lastWaveTime =
                                            IF CONFIG.waveEnabled /\ @ = NoTime
                                            THEN now ELSE @]
                                ELSE CONFIG
                    IN  /\ CONFIG' = [WaveFrame(cfg1, now) EXCEPT
                                            !.explosions = ExplosionCleanup(@)]
                        /\ \E st1 \in {IF loading THEN LoadingFrame(Store, CONFIG, now)
                                         ELSE Store} :
                           \E push \in {PointerForces(st1, MouseVelocityReset(pointer),
                                                      z)} :
                           \E step \in {ParticleSteps(st1, CONFIG, CONFIG', now, j,
                                                      push)} :
                              /\ SetStore(SettledFrame(st1, CONFIG, CONFIG', now, step,
                                                       wasWaveActive))
                              /\ pointer' =
                                   [MouseVelocityReset(pointer) EXCEPT
                                      !.forced = {i \in DOMAIN push : push[i] # Zero3}]
                        /\ wasWaveActive' = waveActive(CONFIG')

(* a wave was pushed by the step *)
WaveCreated ==
    /\ CONFIG'.waves # <<>>
    /\ CONFIG'.waves[Len(CONFIG'.waves)].startTime = now
    /\ \A k \in 1..Len(CONFIG.waves) : CONFIG.waves[k].startTime # now

(* a faulty variant of the skip test: no tolerance *)
SkipFrameNoTolerance(deltaTime, fps) == fps > 0 /\ deltaTime * fps < 1000

(* "maxFPS > 0 && deltaTime < 1000 / maxFPS - 3.0", multiplied through by
   maxFPS *)
SkipFrame(deltaTime, fps) == fps > 0 /\ deltaTime * fps < 1000 - 3 * fps

(* one display callback per clock reading: animate *)
animate ==
    /\ rafAnimate
    /\ now > currentTime
    /\ rafAnimate' = TRUE
    /\ currentTime' = now
    /\ IF SkipFrame(now - lastFrameTime, maxFPS)
       THEN UNCHANGED <<CONFIG, arrays, lastFrameTime, lastProcessedTime, waveCreatedAt,
                        wasWaveActive, pointer>>
       ELSE /\ lastFrameTime' = now /\ lastProcessedTime' = now /\ updatePhysics
            /\ waveCreatedAt' = IF WaveCreated THEN now ELSE waveCreatedAt
    /\ UNCHANGED <<isInitialized, geometry, build, scroll, now, maxFPS>>
    /\ UNCHANGED <<inputs, localStorage, calc>>

----------------------------------------------------------------------------
(* Specifications *)

(* the loading sequencer, explosions and the frame loop *)
NextSeq ==
    \/ SvgLoaded \/ SvgFailed \/ ProcessBatch \/ Tick \/ animate
    \/ restartLoadAnimation \/ onExplosionClick \/ ExplosionEnabledInput
    \/ LoadAnimationDurationInput
    \/ OutsideParticleCountInput \/ OutsideParticleCountTimeout
SpecSeq == Init /\ [][NextSeq]_vars
(* the same with the clock running and the display calling animate, which
   reschedules itself on every call; AnimateStep holds of exactly the steps
   in which animate processes a frame *)
AnimateStep == rafAnimate /\ now > lastFrameTime /\ lastFrameTime' = now
SpecLive == SpecSeq /\ WF_vars(Tick) /\ WF_lastFrameTime(AnimateStep)

(* overlapping formation rebuilds *)
NextRebuild ==
    \/ SvgLoaded \/ SvgFailed \/ ProcessBatch \/ Tick \/ animate
    \/ ParticleCountInput \/ OutsideParticleCountInput
    \/ ParticleCountTimeout \/ OutsideParticleCountTimeout
    \/ ScrollEvent \/ updateScrollProgress
SpecRebuild == Init /\ [][NextRebuild]_vars

(* the frame-rate ceiling *)
NextFps ==
    \/ SvgLoaded \/ SvgFailed \/ ProcessBatch \/ Tick \/ TickNear \/ animate
    \/ MaxFPSInput
SpecFps == Init /\ [][NextFps]_vars

(* the settled physics of a long-lived page *)
NextPhys ==
    \/ SvgLoaded \/ SvgFailed \/ ProcessBatch \/ Tick \/ Sleep \/ animate
    \/ onExplosionClick \/ AutonomousMotionInput
SpecPhys == Init /\ [][NextPhys]_vars

(* the pointer over the page *)
NextPointer ==
    \/ SvgLoaded \/ SvgFailed \/ ProcessBatch \/ Tick \/ animate
    \/ onPointerEnter \/ onPointerLeave \/ onPointerMove \/ onPointerDown
    \/ onPointerUp \/ PointerUpElsewhere
SpecPointer == Init /\ [][NextPointer]_vars

(* the stored settings across page loads *)
NextStorage ==
    \/ SvgLoaded \/ SvgFailed \/ ProcessBatch \/ Tick \/ animate
    \/ LoadAnimationDurationInput \/ PresetClick \/ CurveDrag
    \/ restartLoadAnimation \/ Reload
SpecStorage == Init /\ [][NextStorage]_vars

(* periodic waves with the loading sequencer *)
NextWave ==
    \/ SvgLoaded \/ SvgFailed \/ ProcessBatch \/ Tick \/ animate
    \/ WaveEnabledInput \/ restartLoadAnimation \/ AutonomousMotionInput
SpecWave == Init /\ [][NextWave]_vars

(* the frame loop after a click on the restart button of a page that has
   been running for RestartAt ms: the formation of one build, the particles
   at their start positions with the velocities the settled frames left
   them, a wave travelling or not, clicks on the canvas pending or not, an
   explosion window still open or not *)
RestartAt == MaxTicks * TickMs
RestartVelocities == {Zero3, <<FP \div 50, 0, 0>>}
RestartWaves ==
    {<<>>, <<[radius |-> 3 * WaveStep, startTime |-> RestartAt - 2 * TickMs]>>}
InitRestarted ==
    \E r \in Runs, v \in RestartVelocities, w \in RestartWaves,
       n \in 0..MaxExplosions, ret \in {0, RestartAt + ExplosionReturnDelay \div 2} :
      LET count == DefaultParticleCount
          pts   == BatchOutsidePoints(r, 0, DefaultOutsideCount * CandidateFactor)
          st    == ResizeGlows(
                     CommitArrays([glows |-> <<>>], TempArrays(count, r),
                                  FilterOutsidePoints(pts, DefaultOutsideCount),
                                  count, r, FALSE))
      IN  /\ CONFIG = [ConfigAtStart(NoItem) EXCEPT
                          !.loadAnimationStartTime = RestartAt,
                          !.explosions = [k \in 1..n |-> [applied |-> FALSE]],
                          !.waveEnabled = TRUE,
                          !.lastWaveTime =
                              RestartAt - (IF w = <<>> THEN 1 ELSE 2) * TickMs,
                          !.waves = w]
          /\ positions = st.startPositions
          /\ originalPositions = st.originalPositions
          /\ baseOriginalPositions = st.baseOriginalPositions
          /\ startPositions = st.startPositions
          /\ scrollDirections = st.scrollDirections
          /\ velocities = [i \in 1..st.totalParticleCount |-> v]
          /\ colors = st.colors
          /\ sizes = st.sizes
          /\ baseSizes = st.baseSizes
          /\ glows = st.glows
          /\ explosionGlowEndTimes = ZeroArray(st.totalParticleCount)
          /\ explosionReturnTimes = [i \in 1..st.totalParticleCount |-> ret]
          /\ totalParticleCount = st.totalParticleCount
          /\ baseIndex = st.baseIndex
          /\ isInitialized = TRUE /\ geometry = TRUE
          /\ svgLoad = "loaded" /\ initState = "done"
          /\ tasks = {} /\ committedLatest = TRUE
          /\ particleCountTimeout = NoTime /\ outsideParticleCountTimeout = NoTime
          /\ scrollY = 0 /\ scrollProgress = 0 /\ previousScrollProgress = 0
          /\ scrollTimeout = FALSE
          /\ now = RestartAt /\ inputs = 1
          /\ lastFrameTime = RestartAt /\ maxFPS = 0 /\ rafAnimate = TRUE
          /\ currentTime = RestartAt /\ lastProcessedTime = RestartAt
          /\ waveCreatedAt = IF w = <<>> THEN NoTime ELSE RestartAt - 2 * TickMs
          /\ wasWaveActive = (w # <<>>)
          /\ pointer = PointerAtStart
          /\ localStorage = saveConfigToStorage(ConfigAtStart(NoItem))
          /\ calc = NoCalc
NextLoading == Tick \/ animate
SpecLoading == InitRestarted /\ [][NextLoading]_vars

(* the frame loop on a page that settled after the default loading
   animation and has shown frames every FrameMs since: the formation of one
   build, with the outside particles invisible (outsideInvisiblePercentage
   100) or not; maxBrightness at 100% or at 50%; the waves off, or on since
   before the settling, the first wave RevealFrames frames old and reaching
   the outside particles, the second one waveInterval younger; every
   particle at rest until the frame before SettledAt, which had a click on
   the canvas to apply or not; the particleCount slider untouched, or moved
   with its debounce timer due.  The page state is the one that frame
   leaves. *)
FrameMs == 16
RevealFrames == 79
SettledAt == DefaultLoadDuration + WaveInterval + RevealFrames * FrameMs
BrightnessSettings == {MaxBrightness, FP \div 2}
SettledWaves ==
    {<<>>,
     <<[radius |-> (RevealFrames - 1) * WaveStep,
        startTime |-> DefaultLoadDuration + WaveInterval],
       [radius |-> (RevealFrames - 1 - WaveInterval \div FrameMs) * WaveStep,
        startTime |-> DefaultLoadDuration + 2 * WaveInterval]>>}
(* the arrays of the build r with every particle at rest at its target *)
BuiltPage(r, inv) ==
    LET count == DefaultParticleCount
        pts   == BatchOutsidePoints(r, 0, DefaultOutsideCount * CandidateFactor)
        st    == ResizeGlows(
                   CommitArrays([glows |-> <<>>], TempArrays(count, r),
                                FilterOutsidePoints(pts, DefaultOutsideCount),
                                count, r, inv))
    IN  [st EXCEPT !.positions = st.originalPositions]
InitSettled ==
    \E r \in Runs, inv \in BOOLEAN, mb \in BrightnessSettings, w \in SettledWaves,
       click \in BOOLEAN, pc \in ParticleCounts :
      \E cfg0 \in {[ConfigAtStart(NoItem) EXCEPT
                       !.isLoadingAnimation = FALSE,
                       !.loadAnimationStartTime = 0,
                       !.outsideInvisiblePercentage = IF inv THEN 100 ELSE 0,
                       !.maxBrightness = mb,
                       !.explosions = IF click THEN <<[applied |-> FALSE]>> ELSE <<>>,
                       !.waveEnabled = (w # <<>>),
                       !.lastWaveTime = IF w = <<>> THEN NoTime
                                        ELSE DefaultLoadDuration + 2 * WaveInterval,
                       !.waves = w]} :
      \E cfg1 \in {[WaveFrame(cfg0, SettledAt - FrameMs) EXCEPT
                       !.explosions = ExplosionCleanup(@)]} :
      \E st0 \in {BuiltPage(r, inv)} :
      \E push \in {PointerForces(st0, PointerAtStart, 0)} :
      \E step \in {ParticleSteps(st0, cfg0, cfg1, SettledAt - FrameMs, Zero3, push)} :
      \E st \in {SettledFrame(st0, cfg0, cfg1, SettledAt - FrameMs, step, w # <<>>)} :
          /\ CONFIG = [cfg1 EXCEPT !.particleCount = pc]
          /\ positions = st.positions
          /\ originalPositions = st.originalPositions
          /\ baseOriginalPositions = st.baseOriginalPositions
          /\ startPositions = st.startPositions
          /\ scrollDirections = st.scrollDirections
          /\ velocities = st.velocities
          /\ colors = st.colors
          /\ sizes = st.sizes
          /\ baseSizes = st.baseSizes
          /\ glows = st.glows
          /\ explosionGlowEndTimes = st.explosionGlowEndTimes
          /\ explosionReturnTimes = st.explosionReturnTimes
          /\ totalParticleCount = st.totalParticleCount
          /\ baseIndex = st.baseIndex
          /\ isInitialized = TRUE /\ geometry = TRUE
          /\ svgLoad = "loaded" /\ initState = "done"
          /\ tasks = {} /\ committedLatest = TRUE
          /\ particleCountTimeout =
                 IF pc = DefaultParticleCount THEN NoTime ELSE SettledAt - FrameMs
          /\ outsideParticleCountTimeout = NoTime
          /\ scrollY = 0 /\ scrollProgress = 0 /\ previousScrollProgress = 0
          /\ scrollTimeout = FALSE
          /\ now = SettledAt /\ inputs = 0
          /\ lastFrameTime = SettledAt - FrameMs /\ maxFPS = 0 /\ rafAnimate = TRUE
          /\ currentTime = SettledAt - FrameMs
          /\ lastProcessedTime = SettledAt - FrameMs
          /\ waveCreatedAt = IF w = <<>> THEN NoTime
                             ELSE DefaultLoadDuration + 2 * WaveInterval
          /\ wasWaveActive = (w # <<>>)
          /\ pointer = PointerAtStart
          /\ localStorage = NoItem
          /\ calc = NoCalc
NextColour == Tick \/ animate \/ ParticleCountTimeout \/ ProcessBatch
SpecColour == InitSettled /\ [][NextColour]_vars

(* bezierEasing as a function: its arguments are drawn, then it is called *)
EasingSteps == 16
EasingInputs == {(k * FP) \div 8 - FP \div 2 : k \in 0..EasingSteps}
EasingCurves ==
    Presets \cup
    { [p1x |-> FP \div 2, p1y |-> 0 - FP \div 2, p2x |-> FP \div 2, p2y |-> (3 * FP) \div 2],
      [p1x |-> 0, p1y |-> 2 * FP, p2x |-> FP, p2y |-> 0 - FP],
      [p1x |-> FP, p1y |-> FP, p2x |-> 0, p2y |-> 0] }
InitEasing ==
    /\ InitProgram
    /\ \E t \in EasingInputs, c \in EasingCurves :
          calc = [fn |-> "bezierEasing", t |-> t, curve |-> c, done |-> FALSE, y |-> 0]
CallBezierEasing ==
    /\ calc # NoCalc /\ calc.fn = "bezierEasing" /\ ~calc.done
    /\ calc' = [calc EXCEPT !.done = TRUE, !.y = bezierEasing(calc.t, calc.curve)]
    /\ UNCHANGED <<CONFIG, arrays, isInitialized, geometry, build, scroll, now, inputs,
                   frame, localStorage>>
NextEasing == CallBezierEasing
SpecEasing == InitEasing /\ [][NextEasing]_vars

(* the settled step of one particle as a function: the particle is displaced
   from its target (the origin) along one axis, with zero velocity, and is
   stepped with no jitter, pointer, wave or explosion *)
SpringOffsets ==
    { <<FP \div 20, 0, 0>>, <<FP, 0, 0>>, <<5 * FP, 0, 0>>, <<0, 0, 0 - 2 * FP>> }
InitSpring ==
    /\ InitProgram
    /\ \E d \in SpringOffsets :
          calc = [fn |-> "spring", steps |-> 0,
                  p |-> [pos |-> d, vel |-> Zero3, target |-> Zero3, dir |-> Zero3,
                         ret |-> 0, glowEnd |-> 0]]
SpringStep ==
    /\ calc # NoCalc /\ calc.fn = "spring" /\ calc.steps < MaxSpringSteps
    /\ LET q == ParticleStep(calc.p, CONFIG, now, Zero3, 0)
       IN  calc' = [calc EXCEPT !.steps = @ + 1,
                                !.p = [@ EXCEPT !.pos = q.pos, !.vel = q.vel]]
    /\ UNCHANGED <<CONFIG, arrays, isInitialized, geometry, build, scroll, now, inputs,
                   frame, localStorage>>
NextSpring == SpringStep
SpecSpring == InitSpring /\ [][NextSpring]_vars

(* the wave block of the settled frame as a function of the frame times: the
   display calls animate every period ms (60 Hz or 30 Hz), the waves are
   enabled and the sequencer is Settled throughout *)
FramePeriods == {16, 33}
InitWaveTravel ==
    /\ InitProgram
    /\ \E period \in FramePeriods :
          calc = [fn |-> "waves", period |-> period, t |-> 0, frames |-> 0,
                  cfg |-> [waveEnabled |-> TRUE, lastWaveTime |-> NoTime, waves |-> <<>>]]
WaveTravelStep ==
    /\ calc # NoCalc /\ calc.fn = "waves" /\ calc.frames < MaxWaveFrames
    /\ calc' = [calc EXCEPT !.t = @ + calc.period, !.frames = @ + 1,
                            !.cfg = WaveFrame(@, calc.t + calc.period)]
    /\ UNCHANGED <<CONFIG, arrays, isInitialized, geometry, build, scroll, now, inputs,
                   frame, localStorage>>
NextWaveTravel == WaveTravelStep
SpecWaveTravel == InitWaveTravel /\ [][NextWaveTravel]_vars

(* the colours of one frame as a function of the arrays: the frame is run on
   the arrays of a built page and on the same arrays with every particle but
   particle i somewhere else, by off; in the loading animation the other
   particles' start and target positions are moved with them.  The loading
   frame comes halfway through the animation, the settled frame at SettledAt,
   both runs with the same random draws. *)
DepthOffsets == {<<0, 0, 30 * FP>>, <<2 * FP, 0, 0 - 20 * FP>>}
OthersMoved(st, i, off, loading) ==
    LET Moved(arr) == [j \in 1..Len(arr) |-> IF j = i THEN arr[j] ELSE VAdd(arr[j], off)]
    IN  [st EXCEPT !.positions = Moved(@),
                   !.startPositions = IF loading THEN Moved(@) ELSE @,
                   !.originalPositions = IF loading THEN Moved(@) ELSE @]
InitDepth ==
    /\ InitProgram
    /\ \E r \in Runs, inv \in BOOLEAN, mb \in BrightnessSettings, w \in SettledWaves,
          loading \in BOOLEAN, off \in DepthOffsets,
          i \in 1..(DefaultParticleCount + DefaultOutsideCount) :
        \E page \in {BuiltPage(r, inv)} :
          calc = [fn |-> "depth", loading |-> loading, i |-> i, off |-> off,
                  st |-> IF loading
                         THEN [page EXCEPT !.positions = page.startPositions]
                         ELSE page,
                  cfg |-> [ConfigAtStart(NoItem) EXCEPT
                             !.isLoadingAnimation = loading,
                             !.loadAnimationStartTime = 0,
                             !.outsideInvisiblePercentage = IF inv THEN 100 ELSE 0,
                             !.maxBrightness = mb,
                             !.waveEnabled = (w # <<>>),
                             !.lastWaveTime = IF w = <<>> THEN NoTime
                                              ELSE DefaultLoadDuration + 2 * WaveInterval,
                             !.waves = IF loading THEN <<>> ELSE w],
                  t |-> IF loading THEN DefaultLoadDuration \div 2 ELSE SettledAt,
                  done |-> FALSE, ya |-> Zero3, yb |-> Zero3]
(* the colour the frame writes for particle i of the arrays st *)
FrameColour(st, c, jitter) ==
    IF c.loading THEN LoadingFrame(st, c.cfg, c.t).colors[c.i]
    ELSE \* the settled frame, the pointer away from the canvas
         LET wcfg == [WaveFrame(c.cfg, c.t) EXCEPT !.explosions = ExplosionCleanup(@)]
             push == PointerForces(st, PointerAtStart, 0)
             step == ParticleSteps(st, c.cfg, wcfg, c.t, jitter, push)
         IN  SettledFrame(st, c.cfg, wcfg, c.t, step, waveActive(c.cfg)).colors[c.i]
CallFrame ==
    /\ calc # NoCalc /\ calc.fn = "depth" /\ ~calc.done
    /\ \E j \in JitterDraws(calc.cfg) :
       \E b \in {OthersMoved(calc.st, calc.i, calc.off, calc.loading)} :
          calc' = [calc EXCEPT !.done = TRUE,
                               !.ya = FrameColour(calc.st, calc, j),
                               !.yb = FrameColour(b, calc, j)]
    /\ UNCHANGED <<CONFIG, arrays, isInitialized, geometry, build, scroll, now, inputs,
                   frame, localStorage>>
NextDepth == CallFrame
SpecDepth == InitDepth /\ [][NextDepth]_vars

(* the array accesses of one settled frame as a function of the array
   lengths: the arrays of a built page, all of one length or one of them an
   entry short, with a click on the canvas pending or not and the waves
   travelling or not *)
InitBounds ==
    /\ InitProgram
    /\ \E r \in Runs, inv \in BOOLEAN, w \in SettledWaves, click \in BOOLEAN,
          short \in FrameArrays \cup {"none"} :
        \E page \in {BuiltPage(r, inv)} :
          calc = [fn |-> "bounds", short |-> short,
                  st |-> IF short = "none" THEN page
                         ELSE [page EXCEPT ![short] = Prefix(@, Len(@) - 1)],
                  cfg |-> [ConfigAtStart(NoItem) EXCEPT
                             !.isLoadingAnimation = FALSE,
                             !.loadAnimationStartTime = 0,
                             !.outsideInvisiblePercentage = IF inv THEN 100 ELSE 0,
                             !.explosions = IF click THEN <<[applied |-> FALSE]>>
                                            ELSE <<>>,
                             !.waveEnabled = (w # <<>>),
                             !.lastWaveTime = IF w = <<>> THEN NoTime
                                              ELSE DefaultLoadDuration + 2 * WaveInterval,
                             !.waves = w],
                  done |-> FALSE, accessed |-> {}]
CallSettledFrame ==
    /\ calc # NoCalc /\ calc.fn = "bounds" /\ ~calc.done
    /\ calc' = [calc EXCEPT
                  !.done = TRUE,
                  !.accessed = FrameAccesses(calc.st, calc.cfg,
                                             WaveFrame(calc.cfg, SettledAt))]
    /\ UNCHANGED <<CONFIG, arrays, isInitialized, geometry, build, scroll, now, inputs,
                   frame, localStorage>>
NextBounds == CallSettledFrame
SpecBounds == InitBounds /\ [][NextBounds]_vars

----------------------------------------------------------------------------
(* Steps and states the properties speak of *)

(* animate ran updatePhysics past its guard *)
FrameStep == lastProcessedTime' # lastProcessedTime /\ isInitialized /\ geometry
Loading == CONFIG.isLoadingAnimation
Settled == ~CONFIG.isLoadingAnimation
(* a generateParticlesFromSVG call of recreateParticles committed *)
RebuildCommit ==
    /\ CONFIG'.loadAnimationStartTime = now
    /\ \/ \E t \in tasks : t.kind = "recreate" /\ tasks' = tasks \ {t}
       \/ particleCountTimeout # particleCountTimeout' /\ particleCountTimeout' = NoTime
       \/ outsideParticleCountTimeout # outsideParticleCountTimeout'
          /\ outsideParticleCountTimeout' = NoTime
RestartStep ==
    /\ inputs' = inputs + 1
    /\ localStorage' = saveConfigToStorage(CONFIG)
    /\ CONFIG' = [CONFIG EXCEPT !.isLoadingAnimation = TRUE, !.loadAnimationStartTime = now]
    /\ glows' = ZeroArray(Len(glows))

----------------------------------------------------------------------------
(* Properties *)

(* C3: after every processed frame step the pending-explosion list is empty,
   whether the sequencer is Loading or Settled when the click arrives. *)
C3_ExplosionsDiscardedEveryFrame ==
    [][FrameStep => CONFIG'.explosions = <<>>]_vars

(* C4: the sequencer leaves Loading only in a frame step in which
   now - startTime >= loadAnimationDuration, and once Settled it re-enters
   Loading only through restartLoadAnimation or recreateParticles. *)
C4_SequencerTransitions ==
    [][ /\ (Loading /\ Settled') =>
             /\ FrameStep
             /\ now - CONFIG.loadAnimationStartTime >= CONFIG.loadAnimationDuration
        /\ (Settled /\ Loading') => (RestartStep \/ RebuildCommit) ]_vars
(* Settled was reached, left again for Loading, and the animation runs *)
C4_Witness ==
    /\ isInitialized /\ Loading /\ inputs > 0
    /\ CONFIG.loadAnimationStartTime >= DefaultLoadDuration
    /\ now > CONFIG.loadAnimationStartTime

(* C5: once initialization has completed, with frames processed, the clock
   advancing and restarts and rebuilds ceasing, Loading always terminates. *)
C5_LoadingTerminates == (isInitialized /\ Loading) ~> Settled
(* Settled is reached at the end of an animation that was started late *)
C5_Witness ==
    /\ isInitialized /\ Settled /\ lastFrameTime = now
    /\ CONFIG.loadAnimationStartTime > 0
    /\ now >= CONFIG.loadAnimationStartTime + CONFIG.loadAnimationDuration

(* C10: if the formation geometry fails to load during initialization, no
   frame callback is scheduled or processed. *)
C10_NoFrameLoopAfterFailure ==
    initState = "failed" => ~rafAnimate /\ lastFrameTime = 0

(* every per-particle array holds n entries *)
AllLengths(n) ==
    /\ Len(positions) = n /\ Len(originalPositions) = n
    /\ Len(baseOriginalPositions) = n /\ Len(startPositions) = n
    /\ Len(scrollDirections) = n /\ Len(velocities) = n /\ Len(colors) = n
    /\ Len(sizes) = n /\ Len(baseSizes) = n /\ Len(glows) = n
    /\ Len(explosionGlowEndTimes) = n /\ Len(explosionReturnTimes) = n

(* every build has committed or been discarded and no rebuild is due *)
BuildsFinished ==
    /\ initState = "done" /\ tasks = {}
    /\ particleCountTimeout = NoTime /\ outsideParticleCountTimeout = NoTime

(* C6: when rebuilds overlap, only the most recently started one commits:
   after all of them finish, the arrays are those of the latest rebuild. *)
C6_LatestRebuildWins == (initState = "done" /\ tasks = {}) => committedLatest

(* C7: at every frame step all per-particle arrays hold totalParticleCount
   entries, and totalParticleCount is the configured particleCount plus the
   configured outsideParticleCount. *)
C7_ArraysMatchConfiguredCounts ==
    [][FrameStep =>
         /\ AllLengths(totalParticleCount)
         /\ totalParticleCount = CONFIG.particleCount + CONFIG.outsideParticleCount]_vars

(* C8: after any sequence of rebuilds, each particle below particleCount has
   its base position on the silhouette and each particle from particleCount
   on has it outside. *)
C8_InsideBelowParticleCount ==
    BuildsFinished =>
        \A i \in 1..Len(baseOriginalPositions) :
            isPointInsideMesh(baseOriginalPositions[i]) <=> i <= CONFIG.particleCount

(* C9: a rebuild that changes only outsideParticleCount leaves basePosition
   and targetPosition of every in-formation particle as they were. *)
C9_OutsideOnlyRebuildKeepsFormation ==
    [][ ( /\ RebuildCommit /\ isInitialized
          /\ CONFIG.particleCount <= Len(baseOriginalPositions)
          /\ \A i \in 1..CONFIG.particleCount :
                isPointInsideMesh(baseOriginalPositions[i])
          /\ \A i \in (CONFIG.particleCount + 1)..Len(baseOriginalPositions) :
                ~isPointInsideMesh(baseOriginalPositions[i]) )
        => \A i \in 1..CONFIG.particleCount :
              /\ baseOriginalPositions'[i] = baseOriginalPositions[i]
              /\ originalPositions'[i] = originalPositions[i] ]_vars

(* a frame step that runs the settled physics from a Settled state *)
SettledStep == FrameStep /\ Settled
(* the step applies the pending explosions *)
ExplosionApplied ==
    /\ FrameStep /\ CONFIG.explosionEnabled /\ CONFIG.explosions # <<>>
    /\ Settled \/ LoadingDone(CONFIG, now)
SameParticles == Len(explosionReturnTimes') = Len(explosionReturnTimes)
InFlight(i) == explosionReturnTimes[i] > now
Displacement(i) == VSub(originalPositions[i], positions[i])

(* C1: a settled particle not in free flight whose displacement and velocity
   are both below the rest threshold at the start of a frame step is left by
   that step exactly at its target with zero velocity. *)
C1_RestIsIdempotent ==
    [][SettledStep =>
         \A i \in 1..Len(positions) :
            ( /\ ~InFlight(i)
              /\ LengthSqBelow(Displacement(i), RestThreshold)
              /\ LengthSqBelow(velocities[i], RestThreshold) )
            => /\ positions'[i] = originalPositions[i]
               /\ velocities'[i] = Zero3]_vars

(* C1, amended: in a frame step that adds no force (autonomousMotionStrength
   is 0 and no explosion is pending), a settled particle not in free flight
   whose velocity, and whose displacement after the advance by
   velocity * timeScale, are below the rest threshold is left exactly at its
   target with zero velocity; the exact rest state is such a state, so
   repeating the step keeps it there. *)
C1_ForceFreeRestIsIdempotent ==
    [][(SettledStep /\ CONFIG.autonomousMotionStrength = 0 /\ ~ExplosionApplied) =>
         \A i \in 1..Len(positions) :
            ( /\ ~InFlight(i)
              /\ LengthSqBelow(VSub(Displacement(i),
                                     VScale(velocities[i], TimeScale, FP)),
                                RestThreshold)
              /\ LengthSqBelow(velocities[i], RestThreshold) )
            => /\ positions'[i] = originalPositions[i]
               /\ velocities'[i] = Zero3]_vars
(* a frame has left a particle moving below the threshold, and the jitter
   has been switched off *)
C1_Witness ==
    /\ isInitialized /\ Settled /\ lastFrameTime = now
    /\ CONFIG.autonomousMotionStrength = 0 /\ CONFIG.explosions = <<>>
    /\ \E i \in 1..Len(positions) :
          /\ ~InFlight(i) /\ velocities[i] # Zero3
          /\ LengthSqBelow(velocities[i], RestThreshold)
          /\ LengthSqBelow(VSub(Displacement(i), VScale(velocities[i], TimeScale, FP)),
                            RestThreshold)

(* C2: an explosion applied at time now sets explosionReturnUntil to exactly
   now + explosionReturnDelay when no earlier window is pending and to the
   later of the two otherwise, and without a rebuild neither
   explosionReturnUntil nor explosionGlowUntil ever decreases. *)
C2_ExplosionTimersExact ==
    [][ /\ ExplosionApplied =>
             \A i \in 1..Len(explosionReturnTimes) :
                explosionReturnTimes'[i] =
                    Max(explosionReturnTimes[i], now + ExplosionReturnDelay)
        /\ (SameParticles /\ ~RebuildCommit) =>
             \A i \in 1..Len(explosionReturnTimes) :
                /\ explosionReturnTimes'[i] >= explosionReturnTimes[i]
                /\ explosionGlowEndTimes'[i] >= explosionGlowEndTimes[i] ]_vars

(* a call of animate *)
Callback == currentTime' # currentTime
Processed == lastProcessedTime' # lastProcessedTime
SimulationState == <<CONFIG, arrays, isInitialized, geometry>>

(* C11: with a ceiling set, a callback is skipped exactly when less than
   1000/maxFPS - 3 ms has elapsed since the last processed step; a skipped
   callback changes neither the last-processed time nor the simulation
   state; with no ceiling every callback is processed. *)
C11_SkipSinceLastProcessed ==
    [][Callback =>
         /\ ~Processed <=>
               (maxFPS > 0 /\ (now - lastProcessedTime) * maxFPS < 1000 - 3 * maxFPS)
         /\ ~Processed => UNCHANGED <<lastFrameTime, SimulationState>>
         /\ maxFPS = 0 => Processed]_vars

(* C11, amended: the elapsed time is measured from lastFrameTime, which is
   the time of the last processed step or of the last change of the ceiling,
   whichever is later.  A callback is skipped exactly when maxFPS > 0 and
   less than 1000/maxFPS - 3 ms has elapsed since then; a skipped callback
   changes neither lastFrameTime nor the simulation state; a processed step
   under a ceiling comes at least 1000/maxFPS - 3 ms after the previous
   processed step; with maxFPS = 0 every callback is processed. *)
C11_SkipSinceLastFrameTime ==
    [][ /\ lastFrameTime >= lastProcessedTime
        /\ Callback =>
             /\ ~Processed <=>
                   (maxFPS > 0 /\ (now - lastFrameTime) * maxFPS < 1000 - 3 * maxFPS)
             /\ ~Processed => UNCHANGED <<lastFrameTime, SimulationState>>
             /\ (Processed /\ maxFPS > 0) =>
                   (now - lastProcessedTime) * maxFPS >= 1000 - 3 * maxFPS
             /\ maxFPS = 0 => Processed ]_vars
(* under a ceiling of 2 fps a callback 498 ms after the last processed step,
   inside the tolerance, was processed *)
C11_Witness ==
    /\ maxFPS = 2 /\ isInitialized /\ geometry
    /\ lastProcessedTime = now /\ now = NearMs

EasingCalled == calc # NoCalc /\ calc.fn = "bezierEasing" /\ calc.done

(* C12: for any control points bezierEasing returns exactly 0 at t = 0 and
   exactly 1 at t = 1, and a t outside [0,1] is clamped first, so that
   t < 0 gives 0 and t > 1 gives 1. *)
C12_EasingBoundaries ==
    EasingCalled =>
        /\ calc.t <= 0 => calc.y = 0
        /\ calc.t >= FP => calc.y = FP
        /\ calc.y = bezierEasing(Clamp01(calc.t), calc.curve)
(* the function was called with t beyond 1 and control points outside [0,1] *)
C12_Witness ==
    /\ EasingCalled /\ calc.t > FP /\ calc.y = FP
    /\ calc.curve.p1y < 0 /\ calc.curve.p2y > FP

(* the rounding allowed when two evaluations of a curve are compared *)
EasingTolerance == FP \div 200
(* C13: for each of the four presets and every progress x in [0,1],
   bezierEasing returns the y of the curve point whose x-coordinate is x
   (CSS cubic-bezier); for the linear preset it returns t. *)
C13_EasingMatchesCss ==
    (EasingCalled /\ calc.curve \in Presets /\ calc.t >= 0 /\ calc.t <= FP) =>
        /\ Abs(calc.y - CssCubicBezier(calc.t, calc.curve)) <= EasingTolerance
        /\ calc.curve = curvePresets.linear => Abs(calc.y - calc.t) <= EasingTolerance

(* C14: after every frame step, Loading or Settled, every colour channel of
   every processed particle lies in [0,1] and the three channels of a
   particle are equal. *)
C14_ColoursGreyInUnitRange ==
    [][FrameStep =>
         \A i \in 1..Min(totalParticleCount, Len(colors')) :
            /\ colors'[i][1] = colors'[i][2] /\ colors'[i][2] = colors'[i][3]
            /\ colors'[i][1] >= 0 /\ colors'[i][1] <= FP]_vars

(* the displacement magnitude of a particle displaced along one axis *)
SpringDisplacement(p) ==
    Abs(p.target[1] - p.pos[1]) + Abs(p.target[2] - p.pos[2])
    + Abs(p.target[3] - p.pos[3])

(* C15: with springConstant 0.35, damping 0.90, timeScale 0.90 and no other
   force, the displacement magnitude of a particle released with zero
   velocity never increases from one settled step to the next. *)
C15_SpringDisplacementNeverIncreases ==
    [][(calc # NoCalc /\ calc.fn = "spring") =>
         SpringDisplacement(calc'.p) <= SpringDisplacement(calc.p)]_vars

(* the frame step in which Loading completes *)
CompletionStep == FrameStep /\ Loading /\ Settled'
(* the frame step that follows the one in which Loading completed, with the
   waves enabled since before the completion and none created by it *)
FirstStepAfterCompletion ==
    /\ FrameStep /\ Settled /\ CONFIG.waveEnabled
    /\ lastProcessedTime = CONFIG.loadAnimationStartTime + CONFIG.loadAnimationDuration
    /\ CONFIG.lastWaveTime = lastProcessedTime
    /\ CONFIG.waves = <<>>

(* C18: when Loading completes while periodic waves are enabled, the first
   wave is created immediately after settling: by the end of the frame step
   that follows the completing one a wave has been created, not one
   waveInterval later. *)
C18_FirstWaveImmediately ==
    [][FirstStepAfterCompletion => WaveCreated]_vars

(* the waves of the list that the step created *)
CreatedNow == {k \in 1..Len(CONFIG'.waves) : CONFIG'.waves[k].startTime = now}

(* C19: across frame steps, restarts and wave on/off toggles, at most one
   wave is created per frame step, two consecutive creations are at least
   waveInterval apart, and a wave is created only by a frame step that ends
   Settled with the waves enabled. *)
C19_WaveCadence ==
    [][ /\ FrameStep => Cardinality(CreatedNow) <= 1
        /\ WaveCreated =>
             /\ FrameStep /\ Settled' /\ CONFIG.waveEnabled /\ CONFIG'.waveEnabled
             /\ waveCreatedAt # NoTime => now - waveCreatedAt >= WaveInterval
        /\ Len(CONFIG'.waves) > Len(CONFIG.waves) => WaveCreated ]_vars
(* two waves travel, created one waveInterval apart, after a restart or a
   change of a setting *)
C19_Witness ==
    /\ Len(CONFIG.waves) = 2 /\ inputs > 0
    /\ CONFIG.waves[2].startTime - CONFIG.waves[1].startTime = WaveInterval

(* the waves of the list under evaluation, and the number of frame steps a
   wave has been through, the creating one included *)
TravellingWaves == IF calc # NoCalc /\ calc.fn = "waves" THEN calc.cfg.waves ELSE <<>>
Age(w) == (calc.t - w.startTime) \div calc.period + 1
(* the Gaussian factor of the wave w alone at the distance d from the origin *)
FactorAt(w, d) == WaveFactorSum(<<w>>, d, 1)
(* waveWidth / (2 * waveSpeed), in ms *)
HalfBandTime == (WaveWidth * 1000) \div (2 * WaveSpeed)

(* C16: a wave created with radius 0 at time T has, in the frame displayed
   at time T + waveWidth / (2 * waveSpeed), its Gaussian influence peak
   (factor 1) at the radial distance waveWidth / 2. *)
C16_PeakAtHalfWidthAfterHalfBandTime ==
    \A k \in 1..Len(TravellingWaves) :
        LET w       == TravellingWaves[k]
            elapsed == calc.t - w.startTime
        IN  (elapsed <= HalfBandTime /\ HalfBandTime < elapsed + calc.period)
            => FactorAt(w, WaveWidth \div 2) = FP

(* distances around the band centre at which the factor is probed *)
ProbeOffsets == {0 - WaveSigma, 0 - WaveSigma \div 4, 0, WaveSigma \div 4, WaveSigma}
(* C16, amended: a wave that has been through n settled frame steps, the
   creating one included, has the radius n * waveSpeed * 0.016 * timeScale
   whatever the time between the frames, and its Gaussian influence peak
   (factor 1) lies at the radial distance radius - waveWidth / 2: half a
   width behind the radius, so at waveWidth / 2 once the radius reaches
   waveWidth. *)
C16_PeakHalfWidthBehindRadius ==
    \A k \in 1..Len(TravellingWaves) :
        LET w == TravellingWaves[k]
        IN  /\ w.radius = Age(w) * Mul(Mul(WaveSpeed, DtNominal), TimeScale)
            /\ \A o \in ProbeOffsets :
                  FactorAt(w, w.radius - WaveWidth \div 2 + o) = FP <=> o = 0
            /\ FactorAt(w, WaveWidth \div 2) = FP
                  => Abs(w.radius - WaveWidth) < WaveSigma \div 4
(* a wave in its 19th frame step: the radius has just passed waveWidth *)
C16_Witness ==
    \E k \in 1..Len(TravellingWaves) :
        /\ Age(TravellingWaves[k]) = 19
        /\ TravellingWaves[k].radius >= WaveWidth
        /\ calc.t - TravellingWaves[k].startTime > HalfBandTime

(* the evaluation advanced the waves by one settled frame step *)
TravelStep == calc # NoCalc /\ calc.fn = "waves" /\ calc'.frames = calc.frames + 1
StaysListed(w) ==
    \E j \in 1..Len(calc'.cfg.waves) : calc'.cfg.waves[j].startTime = w.startTime

(* C20: a wave stays in the active list until its radius has swept past the
   viewport diagonal plus waveWidth and is removed in the settled frame step
   in which it reaches that bound; after every settled step no remaining
   wave has a radius at or beyond the bound. *)
C20_RemovedPastViewportDiagonal ==
    [][TravelStep =>
         /\ \A k \in 1..Len(TravellingWaves) :
               LET w == TravellingWaves[k]
               IN  StaysListed(w) <=>
                       w.radius + WaveStep < 2 * MaxWaveRadius + WaveWidth
         /\ \A j \in 1..Len(calc'.cfg.waves) :
               calc'.cfg.waves[j].radius < 2 * MaxWaveRadius + WaveWidth]_vars

(* C20, amended: a wave stays in the active list until its radius has swept
   past half the viewport diagonal (the distance from the wave origin at the
   centre of the viewport to a corner) plus waveWidth, and is removed in the
   settled frame step in which it reaches that bound; after every settled
   step no remaining wave has a radius at or beyond the bound, and the radius
   grows by waveSpeed * 0.016 * timeScale per settled frame step, so every
   wave is removed after a bounded number of settled frame steps. *)
C20_RemovedPastHalfDiagonal ==
    [][TravelStep =>
         /\ \A k \in 1..Len(TravellingWaves) :
               LET w == TravellingWaves[k]
               IN  StaysListed(w) <=> w.radius + WaveStep < MaxWaveRadius + WaveWidth
         /\ \A j \in 1..Len(calc'.cfg.waves) :
               LET w == calc'.cfg.waves[j]
               IN  /\ w.radius < MaxWaveRadius + WaveWidth
                   /\ w.radius = ((calc'.t - w.startTime) \div calc.period + 1) * WaveStep
                   /\ WaveStep > 0 ]_vars
(* the first wave has been removed and later ones travel *)
C20_Witness ==
    /\ TravellingWaves # <<>>
    /\ TravellingWaves[1].startTime > WaveInterval + 2 * calc.period
    /\ TravellingWaves[1].radius > MaxWaveRadius

(* the script starts again *)
ReloadStep == svgLoad # "pending" /\ svgLoad' = "pending"
PersistedFields(cfg) ==
    [ loadAnimationDuration |-> cfg.loadAnimationDuration,
      loadAnimationEasingCurve |-> cfg.loadAnimationEasingCurve ]

(* C17: saving the persisted settings and restoring them at the next start
   yields a loadAnimationDuration and easing control points identical to the
   saved values, and these two fields are the only ones written to storage:
   the item a step writes holds exactly the two fields and reads back as
   their values in CONFIG, and a new start with an item present leaves the
   two fields as they were when they were saved. *)
C17_StoredSettingsRoundTrip ==
    [][ /\ localStorage' # localStorage =>
             /\ Len(localStorage') = 1
             /\ DOMAIN localStorage'[1] =
                    {"loadAnimationDuration", "loadAnimationEasingCurve"}
             /\ DOMAIN localStorage'[1].loadAnimationEasingCurve =
                    {"p1x", "p1y", "p2x", "p2y"}
             /\ loadConfigFromStorage(localStorage') = PersistedFields(CONFIG')
        /\ (ReloadStep /\ localStorage # NoItem) =>
             /\ PersistedFields(CONFIG') = PersistedFields(CONFIG)
             /\ PersistedFields(CONFIG') = loadConfigFromStorage(localStorage') ]_vars
(* a new start has restored a dragged control point *)
C17_Witness ==
    /\ svgLoad = "pending" /\ inputs = MaxInputs /\ localStorage # NoItem
    /\ CONFIG.loadAnimationEasingCurve.p1x = (4213 * FP) \div 10000
    /\ localStorage[1].loadAnimationEasingCurve.p1x = <<"0", ".", "4", "2", "1", "3">>

(* the number of explosions a frame step applies *)
AppliedCount == IF ExplosionApplied THEN Len(CONFIG.explosions) ELSE 0
(* the velocity a particle in free flight leaves the frame with, after n
   impulses and the jitter j *)
FlightVelocity(i, j, n) ==
    VScale(VAdd(VAdd(velocities[i], j), VMul(scrollDirections[i], n * ExplosionImpulse)),
           98, 100)

(* C21: every explosion request that is processed adds its impulse to each
   particle's velocity in exactly one frame step: the step that applies the
   n pending requests adds n impulses to every processed particle and empties
   the list, a frame step that stays Loading keeps the list and the
   velocities, a step with nothing pending adds no impulse, and a request
   leaves the list only by being applied or by the disabling of explosions. *)
C21_ImpulseAppliedOnce ==
    [][ /\ FrameStep =>
             /\ \E j \in JitterDraws(CONFIG) :
                   \A i \in 1..ActualParticleCount(Store) :
                      (AppliedCount > 0 \/ (Settled /\ InFlight(i)))
                          => velocities'[i] = FlightVelocity(i, j, AppliedCount)
             /\ AppliedCount > 0 => CONFIG'.explosions = <<>>
             /\ (Loading /\ Loading') =>
                   velocities' = velocities /\ CONFIG'.explosions = CONFIG.explosions
        /\ Len(CONFIG'.explosions) < Len(CONFIG.explosions) =>
             \/ ExplosionApplied
             \/ CONFIG.explosionEnabled /\ ~CONFIG'.explosionEnabled ]_vars
(* two requests queued while Loading have been applied by the frame step
   that completed it *)
C21_Witness ==
    /\ isInitialized /\ Settled /\ lastProcessedTime = now /\ CONFIG.explosions = <<>>
    /\ now = CONFIG.loadAnimationStartTime + CONFIG.loadAnimationDuration
    /\ \E i \in 1..Len(velocities) : \E j \in JitterDraws(CONFIG) :
          /\ velocities[i] =
                 VScale(VAdd(j, VMul(scrollDirections[i], 2 * ExplosionImpulse)), 98, 100)
          /\ explosionReturnTimes[i] = now + ExplosionReturnDelay

(* a frame step taken while Loading with progress < 1 *)
LoadingStep ==
    /\ FrameStep /\ Loading /\ CONFIG.loadAnimationStartTime # NoTime
    /\ Progress(now - CONFIG.loadAnimationStartTime, CONFIG.loadAnimationDuration) < FP

(* C22: a frame step taken while Loading with progress < 1 runs none of the
   settled physics: it leaves every particle's velocity, size, baseSize and
   explosion timers, the active-wave list with its radii, the wave cadence
   timer and the pending-explosion list unchanged, and of the per-particle
   arrays it writes only position, colour and glow. *)
C22_LoadingStepSkipsPhysics ==
    [][LoadingStep =>
         /\ UNCHANGED <<velocities, sizes, baseSizes, explosionGlowEndTimes,
                        explosionReturnTimes>>
         /\ CONFIG'.waves = CONFIG.waves
         /\ CONFIG'.lastWaveTime = CONFIG.lastWaveTime
         /\ CONFIG'.explosions = CONFIG.explosions
         /\ UNCHANGED <<CONFIG, originalPositions, baseOriginalPositions, startPositions,
                        scrollDirections, totalParticleCount>>]_vars
(* a loading frame has run with a wave travelling, a click pending and the
   particles moving *)
C22_Witness ==
    /\ isInitialized /\ Loading /\ lastProcessedTime = now
    /\ now > CONFIG.loadAnimationStartTime
    /\ now < CONFIG.loadAnimationStartTime + CONFIG.loadAnimationDuration
    /\ CONFIG.waves # <<>> /\ CONFIG.waves[1].radius > 0
    /\ CONFIG.lastWaveTime # NoTime
    /\ CONFIG.explosions # <<>>
    /\ \E i \in 1..Len(velocities) :
          velocities[i] # Zero3 /\ explosionReturnTimes[i] > now

(* the sequencer enters Loading: a click on the restart button on an
   initialized page, or the commit of a rebuild *)
LoadingEntry == (RestartStep \/ RebuildCommit) /\ Loading' /\ isInitialized'

(* C23: every entry into Loading, whether by restartLoadAnimation (when
   initialized) or by a completed recreateParticles, records startTime as the
   current time, sets every particle's position to its startPosition, and
   resets every particle's glow to 0. *)
C23_LoadingEntryResets ==
    [][LoadingEntry =>
         /\ CONFIG'.loadAnimationStartTime = now
         /\ \A i \in 1..Min(totalParticleCount', Len(positions')) :
               positions'[i] = startPositions'[i]
         /\ \A i \in 1..Len(glows') : glows'[i] = 0]_vars

(* the pending scroll callback ran *)
ScrollHandled == scrollTimeout /\ ~scrollTimeout'

(* C24: after any sequence of scroll events (of any step size) and rebuilds,
   once the scroll handler has run on the initialized page every particle's
   targetPosition equals basePosition + scrollDirection * (scrollProgress *
   scrollSpreadForce) for the current scrollProgress, with scrollProgress
   always in [0,1]. *)
C24_TargetsFollowScroll ==
    [][(ScrollHandled /\ isInitialized) =>
         /\ scrollProgress' >= 0 /\ scrollProgress' <= FP
         /\ \A i \in 1..Min(totalParticleCount', Len(baseOriginalPositions')) :
               originalPositions'[i] =
                   VAdd(baseOriginalPositions'[i],
                        VMul(scrollDirections'[i], scrollProgress' * ScrollSpreadForce))]_vars

(* C25: in a settled frame step, a particle with baseSize 0 and current size
   0 (no wave reveals it) gets brightness exactly 0 in all colour channels,
   regardless of depth brightness, wave glow or a still-active explosion
   glow. *)
C25_HiddenParticlesAreBlack ==
    [][SettledStep =>
         \A i \in 1..ActualParticleCount(Store) :
            (i <= Len(baseSizes) /\ baseSizes[i] = 0 /\ sizes'[i] = 0)
                => colors'[i] = Zero3]_vars


(* the step adds no velocity of its own to the particles: no random motion,
   no pending explosion, no wave *)
ForceFreeStep ==
    /\ SettledStep /\ CONFIG.autonomousMotionStrength = 0
    /\ ~ExplosionApplied /\ ~waveActive(CONFIG')

(* C26: in a settled frame step a particle with explosionReturnUntil > now
   gets no spring and no snap to rest: its velocity is only decayed by the 2%
   factor and its position advances by exactly velocity * dt * explosionSpeed,
   dt = 0.016 * timeScale.  Stated for the steps that add no force. *)
C26_FreeFlightAdvance ==
    [][ForceFreeStep =>
         \A i \in 1..ActualParticleCount(Store) :
            (i <= Len(explosionReturnTimes) /\ InFlight(i))
            => /\ velocities'[i] = VScale(velocities[i], 98, 100)
               /\ positions'[i]
                    = VAdd(positions[i],
                           VScale(velocities'[i],
                                  Mul(Mul(DtNominal, TimeScale), ExplosionSpeed), FP))]_vars


(* the step adds no glow to the base brightness: no wave, no explosion glow
   still running on particle i *)
NoGlowOn(i) ==
    /\ ~waveActive(CONFIG')
    /\ i <= Len(explosionGlowEndTimes') => explosionGlowEndTimes'[i] <= now

(* C28: in every settled frame step a particle's brightness is halved if and
   only if maxBrightness < 0.99 and its index lies beyond the in-formation
   range of the particle arrays in use, also between a particleCount change
   in the panel and the end of the rebuild it starts.  Stated for the visible
   particles that get no glow in the step. *)
C28_DimmedIffBeyondFormation ==
    [][SettledStep =>
         \A i \in 1..ActualParticleCount(Store) :
            (i <= Len(baseSizes) /\ baseSizes[i] > 0 /\ NoGlowOn(i))
            => LET scaled == Mul(DepthBrightness(positions[i][3]), CONFIG.maxBrightness)
                   beyond == i > baseIndex /\ CONFIG.maxBrightness < (99 * FP) \div 100
               IN  colors'[i] = Grey(IF beyond THEN scaled \div 2 ELSE scaled)]_vars


(* C27: in any settled frame step the pointer force is applied to particles
   only if the pointer is inside the canvas and is either actually held down
   or has moved since the previous processed step; after the pointer has left
   the canvas, or after the button has been released (wherever) with no
   movement, no particle receives a pointer-force contribution. *)
C27_PointerForceOnlyWhenActive ==
    [][SettledStep =>
         (pointer'.forced # {}
            => /\ pointer.overCanvas
               /\ pointer.buttonHeld \/ pointer.mouseMovedThisFrame)]_vars


FrameCalled == calc # NoCalc /\ calc.fn = "depth" /\ calc.done

(* C29: the depth brightness a frame step writes for a particle depends only
   on that particle's own depth and on the configuration: two states that
   differ only in where the other particles are give it the same brightness,
   in Loading and in Settled state. *)
C29_BrightnessIgnoresOtherParticles ==
    FrameCalled => calc.ya = calc.yb
(* a settled frame ran on two clouds whose other particles are 30 units
   apart in depth, and wrote a colour for a visible particle *)
C29_Witness ==
    /\ FrameCalled /\ ~calc.loading /\ calc.off[3] = 30 * FP
    /\ calc.ya # Zero3 /\ calc.i = 1
    /\ OthersMoved(calc.st, calc.i, calc.off, FALSE).positions # calc.st.positions


BoundsCalled == calc # NoCalc /\ calc.fn = "bounds" /\ calc.done

(* C30: a settled frame step never accesses a per-particle array beyond its
   length, whatever the array lengths are: the indices it processes lie below
   the length of every per-particle array it reads or writes, scrollDirection,
   size, baseSize, glow and the explosion timers included. *)
C30_FrameStaysWithinEveryArray ==
    BoundsCalled =>
        \A a \in calc.accessed : a[2] <= Len(calc.st[a[1]])

====
